---- MODULE Spec2Model ----
(***************************************************************************)
(* State-machine model of the "autonomous Android build pipeline" UI.      *)
(* Every asynchronous handler is cut at its awaits: one action per piece   *)
(* of code that runs between two awaits, so that the handlers of several   *)
(* invocations interleave exactly where the JavaScript event loop lets     *)
(* them.  Log timestamps are wall-clock strings and are not modelled.      *)
(***************************************************************************)
EXTENDS Integers, Sequences, FiniteSets, TLC

(* ------------------------------ bounds -------------------------------- *)
MaxProv == 2        \* invocations of runProvisioning per page load (retry-loop App)
MaxProvAI == 1      \* invocations of runProvisioning (every App but the retry loop)
MaxRuns == 2        \* invocations of startPipeline that pass the input check
MaxLogs == 32       \* entries the log list may hold (it is unbounded in the code)
MaxPicks == 1       \* files chosen in the file picker
MaxRejected == 1    \* startPipeline invocations rejected for missing input
MaxFlushes == 1     \* clicks on the Flush Pipeline button
MaxDownloads == 2   \* clicks on the download button
MaxChats == 2       \* messages sent in the chat panel
MaxTextLen == 3     \* length of a generated response text

(* --------------------------- program values --------------------------- *)
undefined == "undefined"
null == "null"

\* src/types.ts: enum SystemStatus
SystemStatus ==
  [IDLE |-> "IDLE", PROVISIONING |-> "PROVISIONING", ANALYZING |-> "ANALYZING",
   BUILDING |-> "BUILDING", SELF_HEALING |-> "SELF_HEALING",
   TESTING |-> "TESTING", COMPLETED |-> "COMPLETED", FAILED |-> "FAILED"]

SystemStatusValues == {SystemStatus[m] : m \in DOMAIN SystemStatus}

\* Reading a member of the compiled enum object: a name the enum does not
\* declare evaluates to undefined at run time.
EnumMember(name) ==
  IF name \in DOMAIN SystemStatus THEN SystemStatus[name] ELSE undefined

\* The expression SystemStatus.GENERATING_CODE used by the pipelines.
GENERATING_CODE == EnumMember("GENERATING_CODE")

LogEntry(message, type) == [message |-> message, type |-> type]

\* addLog: setLogs(prev => [...prev, entry])
addLog_Prepend(l, message, type) == <<LogEntry(message, type)>> \o l
addLog(l, message, type) == Append(l, LogEntry(message, type))

\* The log list is unbounded in the code; the model stops appending at MaxLogs.
LogRoom(l) == Len(l) <= MaxLogs

IsPrefix(s, t) == /\ Len(s) <= Len(t)
                  /\ \A i \in 1..Len(s) : s[i] = t[i]

VARIABLES
  app,                 \* which root component is mounted
  status, logs, provisioning, projectUrl, selectedFile, inputMode,
  selfHealingScript, retryCount, activeTab, sourceFiles,
  downloadProgress, isPreparingDownload,
  interval,            \* TRUE while the download-progress interval is set
  provRuns,            \* invocations of runProvisioning: position in the script
  pipeRuns,            \* invocations of startPipeline: position and locals
  uses,                \* how often the bounded user operations were used
  savedBlobs,          \* number of APK blobs handed to the browser for download
  svc,                 \* one call of a geminiService function
  env,                 \* process.env as shimmed by the build
  chat,                \* the chat panel: messages, input field, requests in flight
  buildProgress,       \* the progress bar of the progress-bar App (0 elsewhere)
  effectPending        \* TRUE from the commit of a new status until the effect on
                       \* [status] has run (progress-bar App; FALSE elsewhere)

vars == <<app, status, logs, provisioning, projectUrl, selectedFile, inputMode,
          selfHealingScript, retryCount, activeTab, sourceFiles,
          downloadProgress, isPreparingDownload, interval, provRuns, pipeRuns,
          uses, savedBlobs, svc, env, chat, buildProgress, effectPending>>

SvcIdle == [pc |-> "unused"]

NoRun == [pc |-> "none"]

NoChat == [messages |-> <<>>, current |-> "", loading |-> FALSE, calls |-> <<>>]

ProvisioningState == [java |-> FALSE, androidStudio |-> FALSE, sdk |-> FALSE, avd |-> FALSE]

\* State of a freshly mounted App component (the useState initial values).
Mounted(a) ==
  /\ app = a
  /\ status = SystemStatus.IDLE
  /\ logs = <<>>
  /\ provisioning = ProvisioningState
  /\ projectUrl = ""
  /\ selectedFile = null
  /\ inputMode = "url"
  /\ selfHealingScript = null
  /\ retryCount = 0
  /\ activeTab = "terminal"
  /\ sourceFiles = <<>>
  /\ downloadProgress = 0
  /\ isPreparingDownload = FALSE
  /\ interval = FALSE
  /\ provRuns = [i \in 1..MaxProv |-> "none"]
  /\ pipeRuns = [i \in 1..MaxRuns |-> NoRun]
  /\ uses = [picks |-> 0, rejected |-> 0, downloads |-> 0, flushes |-> 0]
  /\ savedBlobs = 0
  /\ chat = NoChat
  /\ buildProgress = 0
  /\ effectPending = FALSE

ProvActive(i) == provRuns[i] \notin {"none", "done"}
PipeActive(i) == pipeRuns[i].pc \notin {"none", "done"}

\* Number of scripted asynchronous sequences that have started and not ended.
InProgress == Cardinality({i \in 1..MaxProv : ProvActive(i)})
              + Cardinality({i \in 1..MaxRuns : PipeActive(i)})

\* The next unused invocation slot (slots are used in order).
FreeProv(i) == provRuns[i] = "none" /\ \A j \in 1..(i-1) : provRuns[j] # "none"
FreePipe(i) == pipeRuns[i].pc = "none" /\ \A j \in 1..(i-1) : pipeRuns[j].pc # "none"

(* ------------------ download-progress effect (retry loop) -------------- *)
\* useEffect(..., [status]): the cleanup of the previous effect clears the
\* interval whenever status changes; the new effect restarts the preparation
\* when the new status is COMPLETED.
\* In the progress-bar App a pipeline can be started again from COMPLETED,
\* so a new COMPLETED render can carry the values a previous preparation
\* left behind: there the commit of the new status and the run of the
\* effect are two steps (RunEffect below), and the render in between is a
\* state of its own.  In the other Apps the effect is folded into the step
\* that changes the status.
StatusEffect(new) ==
  IF new = status \/ app = "ai"
    THEN UNCHANGED <<downloadProgress, isPreparingDownload, interval, effectPending>>
    ELSE IF app = "bar"
      THEN /\ effectPending' = TRUE
           /\ UNCHANGED <<downloadProgress, isPreparingDownload, interval>>
      ELSE /\ effectPending' = effectPending
           /\ IF new = SystemStatus.COMPLETED
                THEN /\ isPreparingDownload' = TRUE
                     /\ downloadProgress' = 0
                     /\ interval' = TRUE
                ELSE /\ interval' = FALSE
                     /\ UNCHANGED <<downloadProgress, isPreparingDownload>>

\* The effect callbacks of the last commit: the cleanup clears the interval
\* of the previous effect, then the body returns at once unless the status
\* is COMPLETED, where it restarts the preparation from 0.
RunEffect ==
  /\ effectPending
  /\ effectPending' = FALSE
  /\ IF status = SystemStatus.COMPLETED
       THEN /\ isPreparingDownload' = TRUE
            /\ downloadProgress' = 0
            /\ interval' = TRUE
       ELSE /\ interval' = FALSE
            /\ UNCHANGED <<downloadProgress, isPreparingDownload>>
  /\ UNCHANGED <<app, status, logs, provisioning, projectUrl, selectedFile,
                 inputMode, selfHealingScript, retryCount, activeTab,
                 sourceFiles, provRuns, pipeRuns, uses, savedBlobs, svc, env,
                 chat, buildProgress>>

setStatus(new) == status' = new /\ StatusEffect(new)

(* ------------------------- source-file records ------------------------- *)
\* A file content is a sequence of text segments whose concatenation is the
\* text; String.prototype.replace(target, replacement) with a string target
\* rewrites the first occurrence only.
RECURSIVE replace(_, _, _)
replace(content, target, replacement) ==
  IF content = <<>> THEN <<>>
  ELSE IF Head(content) = target THEN replacement \o Tail(content)
  ELSE <<Head(content)>> \o replace(Tail(content), target, replacement)

initialFiles ==
  << [name |-> "MainActivity.kt",
      path |-> "app/src/main/java/com/example/app/MainActivity.kt",
      language |-> "kotlin",
      content |-> << "package com.example.app ... super.onCreate(savedInstanceState)\n        ",
                     "setContentView(R.layout.activity_main)",
                     "\n    }\n}" >>],
     [name |-> "build.gradle",
      path |-> "app/build.gradle",
      language |-> "gradle",
      content |-> << "plugins { ... }\n\n",
                     "android {",
                     "\n    compileSdk 34\n    defaultConfig { ... }\n}" >>] >>

\* prev.map(f => f.name === name ? {...f, content: f.content.replace(..)} : f)
PatchFile_Retags(files, name, target, replacement) ==
  [k \in 1..Len(files) |->
     IF files[k].name = name
       THEN [files[k] EXCEPT !.content = replace(@, target, replacement),
                             !.language = "patched"]
       ELSE files[k]]
PatchFile(files, name, target, replacement) ==
  [k \in 1..Len(files) |->
     IF files[k].name = name
       THEN [files[k] EXCEPT !.content = replace(@, target, replacement)]
       ELSE files[k]]

NamespacePatch(files) ==
  PatchFile(files, "build.gradle", "android {",
            << "android {", "\n    namespace \"com.example.app\"" >>)

MemoryPatch(files) ==
  PatchFile(files, "MainActivity.kt", "setContentView(R.layout.activity_main)",
            << "setContentView(R.layout.activity_main)",
               "\n        // Optimized for 2GB RAM Devices\n        System.gc()\n        window.setFlags(...)" >>)

(* ----------------------------- user input ------------------------------ *)
Urls == {"", "https://github.com/android/storyscape-pro"}
\* A File object is identified by its name.
Files == {"app.zip", "notes.txt"}

\* The source input startPipeline checks first is missing.
SourceInputMissing ==
  \/ inputMode = "url" /\ projectUrl = ""
  \/ inputMode = "upload" /\ selectedFile = null

\* The input fields are edited while no script is running: no script reads
\* them after its first await, so an edit commutes with every script step.
\* (Overlapping scripts are explored with the provisioning button and the
\* start button, which need no edit in between.)
CanEdit == InProgress = 0

\* onChange={(e) => setProjectUrl(e.target.value)}
SetProjectUrl ==
  /\ CanEdit
  /\ inputMode = "url"
  /\ \E v \in Urls : v # projectUrl /\ projectUrl' = v
  /\ UNCHANGED <<app, status, logs, provisioning, selectedFile, inputMode,
                 selfHealingScript, retryCount, activeTab, sourceFiles,
                 downloadProgress, isPreparingDownload, interval, provRuns,
                 pipeRuns, uses, savedBlobs, svc, env, chat, buildProgress, effectPending>>

\* onClick={() => setInputMode('url' | 'upload')}
SetInputMode ==
  /\ CanEdit
  /\ \E m \in {"url", "upload"} : m # inputMode /\ inputMode' = m
  /\ UNCHANGED <<app, status, logs, provisioning, projectUrl, selectedFile,
                 selfHealingScript, retryCount, activeTab, sourceFiles,
                 downloadProgress, isPreparingDownload, interval, provRuns,
                 pipeRuns, uses, savedBlobs, svc, env, chat, buildProgress, effectPending>>

(* --------------------------- runProvisioning --------------------------- *)
ProvMsg ==
  [retry |->
     [start |-> "Provisioning high-memory VPS nodes (8GB RAM, 4 vCPUs)...",
      java |-> "Environment: JAVA_HOME initialized at /usr/lib/jvm/java-17-openjdk",
      studio |-> "Tooling: Android Studio Dolphin stable linked to /opt/android-studio",
      sdk |-> "Core: Android SDK (API 34) and Platform-Tools (34.0.0) active",
      avd |-> "Emulator: AVD \"TestDevice\" launched (2GB RAM configuration)",
      ready |-> "Infrastructure Verified. Ready for code ingestion."],
   ai |->
     [start |-> "Initiating cloud instance provisioning...",
      java |-> "JAVA_HOME installed: openjdk-17-jdk",
      studio |-> "Android Studio stable binaries deployed to /opt/android-studio",
      sdk |-> "Command-line tools & build-tools (34.0.0) synchronized",
      avd |-> "AVD \"TestDevice\" successfully initialized (x86_64, Hardware Accel)",
      ready |-> "Environment Ready. Awaiting project instructions."]]

\* The provisioning button is rendered while provisioning.avd is false; it
\* has no disabled attribute.  Runs up to the first await.
RunProvisioning(i) ==
  /\ FreeProv(i)
  /\ ~provisioning.avd
  /\ setStatus(SystemStatus.PROVISIONING)
  /\ logs' = addLog(logs, ProvMsg[app].start, "warning")
  /\ provRuns' = [provRuns EXCEPT ![i] = "java"]
  /\ LogRoom(logs')
  /\ UNCHANGED <<app, provisioning, projectUrl, selectedFile, inputMode,
                 selfHealingScript, retryCount, activeTab, sourceFiles,
                 pipeRuns, uses, savedBlobs, svc, env, chat, buildProgress>>

\* One timer of runProvisioning fires: the code up to the next await.
ProvisioningStep(i) ==
  /\ ProvActive(i)
  /\ LET pc == provRuns[i] IN
     /\ provisioning' =
          CASE pc = "java"   -> [provisioning EXCEPT !.java = TRUE]
            [] pc = "studio" -> [provisioning EXCEPT !.androidStudio = TRUE]
            [] pc = "sdk"    -> [provisioning EXCEPT !.sdk = TRUE]
            [] pc = "avd"    -> [provisioning EXCEPT !.avd = TRUE]
     /\ provRuns' = [provRuns EXCEPT ![i] =
          CASE pc = "java" -> "studio" [] pc = "studio" -> "sdk"
            [] pc = "sdk" -> "avd" [] pc = "avd" -> "done"]
     /\ IF pc = "avd"
          THEN /\ setStatus(SystemStatus.IDLE)
               /\ logs' = addLog(addLog(logs, ProvMsg[app].avd, "success"),
                                 ProvMsg[app].ready, "info")
          ELSE /\ logs' = addLog(logs, ProvMsg[app][pc], "success")
               /\ UNCHANGED <<status, downloadProgress, isPreparingDownload, interval, effectPending>>
  /\ LogRoom(logs')
  /\ UNCHANGED <<app, projectUrl, selectedFile, inputMode, selfHealingScript,
                 retryCount, activeTab, sourceFiles, pipeRuns, uses, savedBlobs, svc, env, chat, buildProgress>>

(* ======================= services/geminiService.ts ===================== *)
\* A text is a sequence of symbols: a backtick (written "~" here), a newline,
\* a space, "x" (any other character) and "python" (the word, as one symbol).
backtick == "~"
Symbols == {backtick, "\n", " ", "x", "python"}
Whitespace == {"\n", " "}
fence == <<backtick, backtick, backtick>>

RECURSIVE Join(_)
Join(t) == IF t = <<>> THEN "" ELSE Head(t) \o Join(Tail(t))

\* String.prototype.trim
RECURSIVE trimStart(_)
trimStart(t) ==
  IF t # <<>> /\ Head(t) \in Whitespace THEN trimStart(Tail(t)) ELSE t
RECURSIVE trimEnd(_)
trimEnd(t) ==
  IF t # <<>> /\ t[Len(t)] \in Whitespace THEN trimEnd(SubSeq(t, 1, Len(t) - 1)) ELSE t
trim(t) == trimEnd(trimStart(t))

MatchAt(t, i, pat) ==
  /\ i + Len(pat) - 1 <= Len(t)
  /\ \A k \in 1..Len(pat) : t[i + k - 1] = pat[k]

\* ^ and $ under the m flag
AtLineStart(t, i) == i = 1 \/ t[i - 1] = "\n"
AtLineEnd(t, i) == i > Len(t) \/ t[i] = "\n"

\* t.replace(/^<pat>\n?/gm, ""): scans t from position i.
RECURSIVE RemoveAtLineStart(_, _, _)
RemoveAtLineStart(t, i, pat) ==
  IF i > Len(t) THEN <<>>
  ELSE IF AtLineStart(t, i) /\ MatchAt(t, i, pat)
    THEN LET j == i + Len(pat) IN
         RemoveAtLineStart(t, IF j <= Len(t) /\ t[j] = "\n" THEN j + 1 ELSE j, pat)
    ELSE <<t[i]>> \o RemoveAtLineStart(t, i + 1, pat)

\* t.replace(/\n?<fence>$/gm, ""): scans t from position i.
RECURSIVE RemoveFenceAtLineEnd(_, _)
RemoveFenceAtLineEnd(t, i) ==
  IF i > Len(t) THEN <<>>
  ELSE IF t[i] = "\n" /\ MatchAt(t, i + 1, fence) /\ AtLineEnd(t, i + 4)
    THEN RemoveFenceAtLineEnd(t, i + 4)
  ELSE IF MatchAt(t, i, fence) /\ AtLineEnd(t, i + 3)
    THEN RemoveFenceAtLineEnd(t, i + 3)
  ELSE <<t[i]>> \o RemoveFenceAtLineEnd(t, i + 1)

\* The three replace calls of generateSelfHealingPythonScript.
cleaned(text) ==
  LET c0 == trim(text)
      c1 == RemoveAtLineStart(c0, 1, fence \o <<"python">>)
      c2 == RemoveAtLineStart(c1, 1, fence)
  IN RemoveFenceAtLineEnd(c2, 1)

\* A JSON text is a sequence of tokens; a member token stands for one
\* "key": "value" pair of an object.
Tok(t) == [t |-> t, key |-> "", value |-> ""]
Member(key, value) == [t |-> "member", key |-> key, value |-> value]

SyntaxError == [kind |-> "throw", message |-> "SyntaxError: Unexpected token in JSON"]

\* JSON.parse
JsonParse(toks) ==
  IF Len(toks) = 1 /\ toks[1].t = "null" THEN [kind |-> "return", value |-> [type |-> "null", members |-> <<>>]]
  ELSE IF Len(toks) = 1 /\ toks[1].t = "number" THEN [kind |-> "return", value |-> [type |-> "number", members |-> <<>>]]
  ELSE IF /\ Len(toks) >= 2
          /\ toks[1].t = "{"
          /\ toks[Len(toks)].t = "}"
          /\ \A k \in 2..(Len(toks) - 1) : toks[k].t = "member"
    THEN [kind |-> "return",
          value |-> [type |-> "object", members |-> SubSeq(toks, 2, Len(toks) - 1)]]
  ELSE SyntaxError

\* Reading property key of a parsed value that is not null or undefined.
RECURSIVE Lookup(_, _)
Lookup(members, key) ==
  IF members = <<>> THEN undefined
  ELSE IF members[Len(members)].key = key THEN members[Len(members)].value
  ELSE Lookup(SubSeq(members, 1, Len(members) - 1), key)

\* An outcome of ai.models.generateContent: the request is rejected, or a
\* response arrives whose text getter yields undefined or a text.
Rejected == [kind |-> "reject", text |-> <<>>]
NoText == [kind |-> "noText", text |-> <<>>]
Response(text) == [kind |-> "text", text |-> text]

\* getApiKey: manualKey if truthy, else process.env.API_KEY, or the empty string
getApiKey(manualKey, envKey) == IF manualKey # "" THEN manualKey ELSE envKey

NoKeyError == [kind |-> "throw", message |-> "API_KEY not found. Please provide one."]
RequestError == [kind |-> "throw", message |-> "request failed"]

\* analyzeBuildError: what the returned promise settles to.
\* JSON.parse(undefined) parses the text "undefined".
analyzeBuildError(manualKey, envKey, reply) ==
  IF getApiKey(manualKey, envKey) = "" THEN NoKeyError
  ELSE IF reply.kind = "reject" THEN RequestError
  ELSE IF reply.kind = "noText" THEN JsonParse(<<Tok("undefined")>>)
  ELSE JsonParse(reply.text)

\* if (!response.text) throw
EmptyResponse_Unchecked(reply) == FALSE
EmptyResponse(reply) == reply.kind = "noText" \/ reply.text = <<>>

\* generateSelfHealingPythonScript: what the returned promise settles to.
generateSelfHealingPythonScript(manualKey, envKey, reply) ==
  IF getApiKey(manualKey, envKey) = "" THEN NoKeyError
  ELSE IF reply.kind = "reject" THEN RequestError
  ELSE IF EmptyResponse(reply)
    THEN [kind |-> "throw", message |-> "AI generation yielded an empty response."]
  ELSE [kind |-> "return", value |-> Join(cleaned(reply.text))]

\* Texts of at most n symbols.
RECURSIVE TextsUpTo(_)
TextsUpTo(n) ==
  IF n = 0 THEN {<<>>}
  ELSE LET shorter == TextsUpTo(n - 1) IN
       shorter \cup {Append(t, c) : t \in shorter, c \in Symbols}

\* Longer responses: a fenced script, with and without the language word,
\* with a fence of three and of six backticks, and a text without a fence.
SampleTexts ==
  { fence \o <<"python", "\n", "x", "\n">> \o fence,
    fence \o <<"\n", "x", "\n">> \o fence \o <<"\n">>,
    fence \o fence \o <<"python", "\n", "x", "\n">> \o fence \o fence,
    <<" ", "x", "\n", "x", " ">> }

ScriptReplies == {Rejected, NoText} \cup {Response(t) : t \in TextsUpTo(MaxTextLen) \cup SampleTexts}

AnalysisA ==
  << Tok("{"), Member("issueDescription", "Namespace is missing"),
     Member("rootCause", "AGP 8 requires a namespace"),
     Member("affectedFile", "app/build.gradle"),
     Member("fixCode", "namespace 'com.example.app'"),
     Member("explanation", "Declare the namespace"), Tok("}") >>
AnalysisB ==
  << Tok("{"), Member("issueDescription", "Manifest merge failed"),
     Member("rootCause", "package attribute removed"),
     Member("affectedFile", "AndroidManifest.xml"),
     Member("fixCode", "android { namespace }"),
     Member("explanation", "Move the package name"), Tok("}") >>

AnalysisTexts ==
  { <<>>, <<Tok("junk")>>, <<Tok("null")>>, <<Tok("number")>>,
    <<Tok("{"), Tok("}")>>, <<Tok("{"), Member("rootCause", "x")>>,
    AnalysisA, AnalysisB }

AnalysisReplies == {Rejected, NoText} \cup {Response(t) : t \in AnalysisTexts}

Keys == {"", "AIza-key"}

\* One call of a service function with every input drawn from its set.
InitSvc ==
  /\ Mounted("svc")
  /\ env \in {[API_KEY |-> k] : k \in Keys}
  /\ \/ svc \in {[pc |-> "called", fn |-> "analyzeBuildError", manualKey |-> m,
                  reply |-> r, result |-> [kind |-> "pending"]]
                    : m \in Keys, r \in AnalysisReplies}
     \/ svc \in {[pc |-> "called", fn |-> "generateSelfHealingPythonScript",
                  manualKey |-> m, reply |-> r, result |-> [kind |-> "pending"]]
                    : m \in Keys, r \in ScriptReplies}

Svc_AnalyzeBuildError ==
  /\ svc.pc = "called"
  /\ svc.fn = "analyzeBuildError"
  /\ svc' = [svc EXCEPT !.pc = "settled",
                        !.result = analyzeBuildError(svc.manualKey, env.API_KEY, svc.reply)]
  /\ UNCHANGED <<app, status, logs, provisioning, projectUrl, selectedFile,
                 inputMode, selfHealingScript, retryCount, activeTab,
                 sourceFiles, downloadProgress, isPreparingDownload, interval,
                 provRuns, pipeRuns, uses, savedBlobs, env, chat, buildProgress, effectPending>>

Svc_GenerateSelfHealingPythonScript ==
  /\ svc.pc = "called"
  /\ svc.fn = "generateSelfHealingPythonScript"
  /\ svc' = [svc EXCEPT !.pc = "settled",
                        !.result = generateSelfHealingPythonScript(svc.manualKey, env.API_KEY, svc.reply)]
  /\ UNCHANGED <<app, status, logs, provisioning, projectUrl, selectedFile,
                 inputMode, selfHealingScript, retryCount, activeTab,
                 sourceFiles, downloadProgress, isPreparingDownload, interval,
                 provRuns, pipeRuns, uses, savedBlobs, env, chat, buildProgress, effectPending>>

NextSvc == Svc_AnalyzeBuildError \/ Svc_GenerateSelfHealingPythonScript

SpecSvc == InitSvc /\ [][NextSvc]_vars

\* response.text is empty or missing.
EmptyOrMissing(reply) == reply.kind = "noText" \/ (reply.kind = "text" /\ reply.text = <<>>)

\* C9: an empty or missing response text makes both service functions throw:
\* neither returns a value, and with an API key configured
\* generateSelfHealingPythonScript throws its empty-response error and
\* analyzeBuildError the parse error.
C9_EmptyResponseThrows ==
  (svc.pc = "settled" /\ EmptyOrMissing(svc.reply)) =>
     /\ svc.result.kind = "throw"
     /\ getApiKey(svc.manualKey, env.API_KEY) # "" =>
          svc.result.message =
            IF svc.fn = "generateSelfHealingPythonScript"
              THEN "AI generation yielded an empty response."
              ELSE SyntaxError.message

C9_Witness ==
  /\ svc.pc = "settled"
  /\ svc.fn = "generateSelfHealingPythonScript"
  /\ svc.reply = Response(<<>>)
  /\ getApiKey(svc.manualKey, env.API_KEY) # ""
  /\ svc.result.kind = "throw"

(* =================== retry-loop pipeline (part_001) ==================== *)
maxRetries == 3

\* handleFileChange of the retry-loop App: the chosen file is taken as it is.
Retry_HandleFileChange ==
  /\ CanEdit
  /\ inputMode = "upload"
  /\ uses.picks < MaxPicks
  /\ uses' = [uses EXCEPT !.picks = @ + 1]
  /\ \E file \in Files :
       /\ selectedFile' = file
       /\ logs' = addLog(logs, "Attached local source archive: " \o file, "info")
  /\ LogRoom(logs')
  /\ UNCHANGED <<app, status, provisioning, projectUrl, inputMode,
                 selfHealingScript, retryCount, activeTab, sourceFiles,
                 downloadProgress, isPreparingDownload, interval, provRuns,
                 pipeRuns, savedBlobs, svc, env, chat, buildProgress, effectPending>>

\* The start button of the current input mode is rendered and enabled.
Retry_StartEnabled ==
  IF inputMode = "url"
    THEN status = SystemStatus.IDLE /\ provisioning.avd
    ELSE selectedFile # null /\ status = SystemStatus.IDLE /\ provisioning.avd

\* startPipeline returns at its input check.
Retry_StartRejected ==
  /\ Retry_StartEnabled
  /\ SourceInputMissing
  /\ uses.rejected < MaxRejected
  /\ uses' = [uses EXCEPT !.rejected = @ + 1]
  /\ logs' = addLog(logs, "Error: Source input required.", "error")
  /\ LogRoom(logs')
  /\ UNCHANGED <<app, status, provisioning, projectUrl, selectedFile, inputMode,
                 selfHealingScript, retryCount, activeTab, sourceFiles,
                 downloadProgress, isPreparingDownload, interval, provRuns,
                 pipeRuns, savedBlobs, svc, env, chat, buildProgress, effectPending>>

\* startPipeline up to its first await.
Retry_StartPipeline(i) ==
  /\ FreePipe(i)
  /\ Retry_StartEnabled
  /\ ~SourceInputMissing
  /\ retryCount' = 0
  /\ setStatus(GENERATING_CODE)
  /\ logs' = addLog(logs, "Agent: Designing application architecture layers...", "ai")
  /\ pipeRuns' = [pipeRuns EXCEPT ![i] =
        [pc |-> "generate", currentRetry |-> 0, isStable |-> FALSE,
         statusTrace |-> <<GENERATING_CODE>>, cycles |-> <<>>]]
  /\ LogRoom(logs')
  /\ UNCHANGED <<app, provisioning, projectUrl, selectedFile, inputMode,
                 selfHealingScript, activeTab, sourceFiles, provRuns, uses, savedBlobs, svc, env, chat, buildProgress>>

\* The failure scripted for a build cycle: the namespace error in the cycle
\* with currentRetry 0, the OutOfMemoryError in the cycle with currentRetry 1.
BuildFailsNamespace_Twice(currentRetry) == currentRetry <= 1
BuildFailsNamespace(currentRetry) == currentRetry = 0
TestFailsMemory_Always(currentRetry) == currentRetry >= 1
TestFailsMemory(currentRetry) == currentRetry = 1

\* The loop condition of startPipeline.
LoopContinues(r) == r.currentRetry < maxRetries /\ ~r.isStable

\* Evaluates while (currentRetry < maxRetries && !isStable) with the locals
\* r and the log list l left by the code before it: either the head of the
\* next build cycle (up to its await) or the code after the loop.
Retry_LoopHead(i, r, l, tab) ==
  IF LoopContinues(r)
    THEN /\ retryCount' = r.currentRetry
         /\ setStatus(SystemStatus.BUILDING)
         /\ logs' = addLog(l, "Build Cycle #" \o ToString(r.currentRetry + 1)
                              \o ": Compiling project dependencies...", "warning")
         /\ activeTab' = tab
         /\ pipeRuns' = [pipeRuns EXCEPT ![i] =
               [r EXCEPT !.pc = "build",
                         !.statusTrace = Append(@, SystemStatus.BUILDING)]]
    ELSE IF r.isStable
      THEN /\ setStatus(SystemStatus.COMPLETED)
           /\ logs' = addLog(l, "Pipeline fully verified. APK ready for local deployment. (you can download by clicking on download button)", "success")
           /\ activeTab' = "terminal"
           /\ pipeRuns' = [pipeRuns EXCEPT ![i] =
                 [r EXCEPT !.pc = "done",
                           !.statusTrace = Append(@, SystemStatus.COMPLETED)]]
           /\ UNCHANGED retryCount
      ELSE /\ setStatus(SystemStatus.FAILED)
           /\ logs' = addLog(l, "Autonomous loop terminated: could not reach stability on 2GB target.", "error")
           /\ activeTab' = tab
           /\ pipeRuns' = [pipeRuns EXCEPT ![i] =
                 [r EXCEPT !.pc = "done",
                           !.statusTrace = Append(@, SystemStatus.FAILED)]]
           /\ UNCHANGED retryCount

\* After the code-generation delay: publish the files and enter the loop.
Retry_Generated(i) ==
  /\ pipeRuns[i].pc = "generate"
  /\ sourceFiles' = initialFiles
  /\ Retry_LoopHead(i, pipeRuns[i],
                    addLog(logs, "Source Code generated for \"StoryScape 2.0\".", "success"),
                    "source")
  /\ LogRoom(logs')
  /\ UNCHANGED <<app, provisioning, projectUrl, selectedFile, inputMode,
                 selfHealingScript, provRuns, uses, savedBlobs, svc, env, chat, buildProgress>>

\* After the compile delay of a build cycle.
Retry_BuildDone(i) ==
  /\ pipeRuns[i].pc = "build"
  /\ LET r == pipeRuns[i] IN
     IF BuildFailsNamespace(r.currentRetry)
       THEN /\ setStatus(SystemStatus.SELF_HEALING)
            /\ logs' = addLog(addLog(logs,
                         "Build Failure: namespace not specified in build.gradle.", "error"),
                         "Agent: Analyzing build.gradle for AGP 8.0 compatibility...", "ai")
            /\ pipeRuns' = [pipeRuns EXCEPT ![i] =
                  [r EXCEPT !.pc = "patchNamespace",
                            !.cycles = Append(@, "namespace"),
                            !.statusTrace = Append(@, SystemStatus.SELF_HEALING)]]
       ELSE /\ setStatus(SystemStatus.TESTING)
            /\ logs' = addLog(addLog(addLog(logs,
                         "Build Success: app-debug.apk generated (4.2MB).", "success"),
                         "Simulation Environment: 2GB RAM Smartphone Node", "info"),
                         "adb install -r app-debug.apk", "info")
            /\ pipeRuns' = [pipeRuns EXCEPT ![i] =
                  [r EXCEPT !.pc = "install",
                            !.statusTrace = Append(@, SystemStatus.TESTING)]]
  /\ LogRoom(logs')
  /\ UNCHANGED <<app, provisioning, projectUrl, selectedFile, inputMode,
                 selfHealingScript, retryCount, activeTab, sourceFiles,
                 provRuns, uses, savedBlobs, svc, env, chat, buildProgress>>

\* After the namespace patch delay: patch, currentRetry++, continue.
Retry_NamespacePatched(i) ==
  /\ pipeRuns[i].pc = "patchNamespace"
  /\ sourceFiles' = NamespacePatch(sourceFiles)
  /\ Retry_LoopHead(i, [pipeRuns[i] EXCEPT !.currentRetry = @ + 1],
                    addLog(logs, "Patch Applied: Explicit namespace declared in build.gradle.", "success"),
                    activeTab)
  /\ LogRoom(logs')
  /\ UNCHANGED <<app, provisioning, projectUrl, selectedFile, inputMode,
                 selfHealingScript, provRuns, uses, savedBlobs, svc, env, chat, buildProgress>>

\* After the adb install delay.
Retry_Installed(i) ==
  /\ pipeRuns[i].pc = "install"
  /\ logs' = addLog(logs, "Launching com.example.app/MainActivity...", "info")
  /\ pipeRuns' = [pipeRuns EXCEPT ![i].pc = "launch"]
  /\ LogRoom(logs')
  /\ UNCHANGED <<app, status, provisioning, projectUrl, selectedFile, inputMode,
                 selfHealingScript, retryCount, activeTab, sourceFiles,
                 downloadProgress, isPreparingDownload, interval, provRuns,
                 uses, savedBlobs, svc, env, chat, buildProgress, effectPending>>

\* After the launch delay: the scripted OutOfMemoryError or the smoke test.
Retry_Launched(i) ==
  /\ pipeRuns[i].pc = "launch"
  /\ LET r == pipeRuns[i] IN
     IF TestFailsMemory(r.currentRetry)
       THEN /\ setStatus(SystemStatus.SELF_HEALING)
            /\ logs' = addLog(addLog(addLog(logs,
                         "Runtime Error: java.lang.OutOfMemoryError: Failed to allocate 128MB bitmap", "error"),
                         "Device performance check: 2GB RAM exceeded on 4K asset loading.", "error"),
                         "Agent: Optimization needed for low-memory (2GB) hardware...", "ai")
            /\ pipeRuns' = [pipeRuns EXCEPT ![i] =
                  [r EXCEPT !.pc = "patchMemory",
                            !.cycles = Append(@, "memory"),
                            !.statusTrace = Append(@, SystemStatus.SELF_HEALING)]]
            /\ UNCHANGED <<retryCount, activeTab>>
       ELSE Retry_LoopHead(i, [r EXCEPT !.isStable = TRUE, !.cycles = Append(@, "stable")],
                    addLog(addLog(logs,
                         "Smoke Test: Activity initialized in 820ms.", "success"),
                         "Resource Check: 140MB PSS. Status: VERIFIED STABLE.", "success"),
                    activeTab)
  /\ LogRoom(logs')
  /\ UNCHANGED <<app, provisioning, projectUrl, selectedFile, inputMode,
                 selfHealingScript, sourceFiles, provRuns, uses, savedBlobs, svc, env, chat, buildProgress>>

\* After the memory patch delay: patch, currentRetry++, continue.
Retry_MemoryPatched(i) ==
  /\ pipeRuns[i].pc = "patchMemory"
  /\ sourceFiles' = MemoryPatch(sourceFiles)
  /\ Retry_LoopHead(i, [pipeRuns[i] EXCEPT !.currentRetry = @ + 1],
                    addLog(logs, "Patch Applied: Garbage Collection and Hardware Accel optimizations added.", "success"),
                    activeTab)
  /\ LogRoom(logs')
  /\ UNCHANGED <<app, provisioning, projectUrl, selectedFile, inputMode,
                 selfHealingScript, provRuns, uses, savedBlobs, svc, env, chat, buildProgress>>

\* Math.floor(Math.random() * 10) + 2
TickIncrements_Zero == {0}
TickIncrements == 2..11

\* One firing of the download-progress interval.
Retry_DownloadTick ==
  /\ interval
  /\ IF downloadProgress >= 100
       THEN /\ interval' = FALSE
            /\ isPreparingDownload' = FALSE
            /\ downloadProgress' = 100
       ELSE /\ \E inc \in TickIncrements : downloadProgress' = downloadProgress + inc
            /\ UNCHANGED <<interval, isPreparingDownload>>
  /\ UNCHANGED <<app, status, logs, provisioning, projectUrl, selectedFile,
                 inputMode, selfHealingScript, retryCount, activeTab,
                 sourceFiles, provRuns, pipeRuns, uses, savedBlobs, svc, env, chat, buildProgress, effectPending>>

\* The download button is rendered only while status is COMPLETED.
DownloadRendered == status = SystemStatus.COMPLETED

\* The early return of handleDownload.
DownloadRefused_Never == FALSE
DownloadRefused == downloadProgress < 100

\* handleDownload, called from the download button.
Retry_HandleDownload ==
  /\ DownloadRendered
  /\ uses.downloads < MaxDownloads
  /\ uses' = [uses EXCEPT !.downloads = @ + 1]
  /\ IF DownloadRefused
       THEN UNCHANGED <<logs, savedBlobs>>
       ELSE /\ savedBlobs' = savedBlobs + 1
            /\ logs' = addLog(logs, "APK Binary (5.0MB) successfully saved to local storage.", "success")
  /\ LogRoom(logs')
  /\ UNCHANGED <<app, status, provisioning, projectUrl, selectedFile,
                 inputMode, selfHealingScript, retryCount, activeTab,
                 sourceFiles, downloadProgress, isPreparingDownload, interval,
                 provRuns, pipeRuns, svc, env, chat, buildProgress, effectPending>>

\* FLUSH REPO: window.location.reload() mounts a fresh App; every pending
\* timer of the old page is gone.
Retry_Reload ==
  /\ provisioning.avd
  /\ status' = SystemStatus.IDLE
  /\ logs' = <<>>
  /\ provisioning' = ProvisioningState
  /\ projectUrl' = ""
  /\ selectedFile' = null
  /\ inputMode' = "url"
  /\ selfHealingScript' = null
  /\ retryCount' = 0
  /\ activeTab' = "terminal"
  /\ sourceFiles' = <<>>
  /\ downloadProgress' = 0
  /\ isPreparingDownload' = FALSE
  /\ interval' = FALSE
  /\ provRuns' = [i \in 1..MaxProv |-> "none"]
  /\ pipeRuns' = [i \in 1..MaxRuns |-> NoRun]
  /\ uses' = [picks |-> 0, rejected |-> 0, downloads |-> 0, flushes |-> 0]
  /\ savedBlobs' = 0
  /\ chat' = NoChat
  /\ effectPending' = FALSE
  /\ UNCHANGED <<app, svc, env, buildProgress>>

InitRetry == Mounted("retry") /\ svc = SvcIdle /\ env = [API_KEY |-> ""]

NextRetry ==
  \/ SetProjectUrl
  \/ SetInputMode
  \/ Retry_HandleFileChange
  \/ \E i \in 1..MaxProv : RunProvisioning(i)
  \/ \E i \in 1..MaxProv : ProvisioningStep(i)
  \/ Retry_StartRejected
  \/ \E i \in 1..MaxRuns : Retry_StartPipeline(i)
  \/ \E i \in 1..MaxRuns : Retry_Generated(i)
  \/ \E i \in 1..MaxRuns : Retry_BuildDone(i)
  \/ \E i \in 1..MaxRuns : Retry_NamespacePatched(i)
  \/ \E i \in 1..MaxRuns : Retry_Installed(i)
  \/ \E i \in 1..MaxRuns : Retry_Launched(i)
  \/ \E i \in 1..MaxRuns : Retry_MemoryPatched(i)
  \/ Retry_DownloadTick
  \/ Retry_HandleDownload
  \/ Retry_Reload

SpecRetry == InitRetry /\ [][NextRetry]_vars

(* ============ AI-analysis pipeline (first App of Terminal.tsx) ========= *)
FileNameSymbols ==
  [x \in Files |->
     IF x = "app.zip" THEN <<"a", "p", "p", ".", "z", "i", "p">>
     ELSE <<"n", "o", "t", "e", "s", ".", "t", "x", "t">>]

\* String.prototype.endsWith on symbol sequences
endsWith(t, suffix) ==
  /\ Len(suffix) <= Len(t)
  /\ SubSeq(t, Len(t) - Len(suffix) + 1, Len(t)) = suffix

\* file.name.toLowerCase().endsWith('.zip'); the names drawn are lower case.
IsZipName(file) == endsWith(FileNameSymbols[file], <<".", "z", "i", "p">>)

\* handleFileChange of the AI-analysis App.
AI_HandleFileChange ==
  /\ CanEdit
  /\ inputMode = "upload"
  /\ uses.picks < MaxPicks
  /\ uses' = [uses EXCEPT !.picks = @ + 1]
  /\ \E file \in Files :
       IF IsZipName(file)
         THEN /\ selectedFile' = file
              /\ logs' = addLog(logs, "Archive loaded: " \o file \o " [0.00 MB]", "info")
         ELSE /\ UNCHANGED selectedFile
              /\ logs' = addLog(logs, "Invalid file format: " \o file
                                      \o ". Please upload a .zip archive.", "error")
  /\ LogRoom(logs')
  /\ UNCHANGED <<app, status, provisioning, projectUrl, inputMode,
                 selfHealingScript, retryCount, activeTab, sourceFiles,
                 downloadProgress, isPreparingDownload, interval, provRuns,
                 pipeRuns, savedBlobs, svc, env, chat, buildProgress, effectPending>>

\* The X button of the chosen archive: setSelectedFile(null).
AI_ClearSelectedFile ==
  /\ CanEdit
  /\ inputMode = "upload"
  /\ selectedFile # null
  /\ selectedFile' = null
  /\ UNCHANGED <<app, status, logs, provisioning, projectUrl, inputMode,
                 selfHealingScript, retryCount, activeTab, sourceFiles,
                 downloadProgress, isPreparingDownload, interval, provRuns,
                 pipeRuns, uses, savedBlobs, svc, env, chat, buildProgress, effectPending>>

\* The start button of the current input mode is rendered and enabled.
AI_StartEnabled ==
  IF inputMode = "url"
    THEN status = SystemStatus.IDLE /\ provisioning.avd
    ELSE selectedFile # null /\ status = SystemStatus.IDLE /\ provisioning.avd

\* startPipeline returns at one of its two input checks.
AI_StartRejected ==
  /\ AI_StartEnabled
  /\ SourceInputMissing
  /\ uses.rejected < MaxRejected
  /\ uses' = [uses EXCEPT !.rejected = @ + 1]
  /\ logs' = addLog(logs, IF inputMode = "url"
                            THEN "Error: Repository URL required."
                            ELSE "Error: Project ZIP archive required.", "error")
  /\ LogRoom(logs')
  /\ UNCHANGED <<app, status, provisioning, projectUrl, selectedFile, inputMode,
                 selfHealingScript, retryCount, activeTab, sourceFiles,
                 downloadProgress, isPreparingDownload, interval, provRuns,
                 pipeRuns, savedBlobs, svc, env, chat, buildProgress, effectPending>>

\* startPipeline up to its first await.  The closure keeps inputMode.
AI_StartPipeline(i) ==
  /\ FreePipe(i)
  /\ AI_StartEnabled
  /\ ~SourceInputMissing
  /\ setStatus(SystemStatus.ANALYZING)
  /\ logs' = addLog(logs, IF inputMode = "url"
                            THEN "Connecting to remote source: " \o projectUrl
                            ELSE "Streaming local archive to VPS: " \o selectedFile, "info")
  /\ pipeRuns' = [pipeRuns EXCEPT ![i] =
        [pc |-> "clone", inputMode |-> inputMode,
         statusTrace |-> <<SystemStatus.ANALYZING>>,
         analysis |-> "none", script |-> "none", interrupted |-> 0]]
  /\ LogRoom(logs')
  /\ UNCHANGED <<app, provisioning, projectUrl, selectedFile, inputMode,
                 selfHealingScript, retryCount, activeTab, sourceFiles,
                 provRuns, uses, savedBlobs, svc, env, chat, buildProgress>>

\* The code of startPipeline between two timers that changes only the log.
AI_LogStep(i) ==
  /\ pipeRuns[i].pc \in {"clone", "patch", "sync", "push", "adb"}
  /\ LET pc == pipeRuns[i].pc IN
     /\ logs' =
          CASE pc = "clone" ->
                 IF pipeRuns[i].inputMode = "url"
                   THEN addLog(logs, "Git clone successful. Repository indexed.", "success")
                   ELSE addLog(logs, "File integrity verified. Extraction complete.", "success")
            [] pc = "patch" -> addLog(logs, "Retrying build with patched configuration...", "info")
            [] pc = "sync" -> addLog(logs, "Pushing APK to simulator filesystem...", "info")
            [] pc = "push" -> addLog(logs, "Installing package via ADB...", "info")
            [] pc = "adb" -> addLog(logs, "Invoking primary Activity intent...", "info")
     /\ pipeRuns' = [pipeRuns EXCEPT ![i].pc =
          CASE pc = "clone" -> "analyze" [] pc = "patch" -> "rebuild"
            [] pc = "sync" -> "push" [] pc = "push" -> "adb" [] pc = "adb" -> "intent"]
  /\ LogRoom(logs')
  /\ UNCHANGED <<app, status, provisioning, projectUrl, selectedFile, inputMode,
                 selfHealingScript, retryCount, activeTab, sourceFiles,
                 downloadProgress, isPreparingDownload, interval, provRuns,
                 uses, savedBlobs, svc, env, chat, buildProgress, effectPending>>

\* After the analysis delay: the build starts.
AI_Analyzed(i) ==
  /\ pipeRuns[i].pc = "analyze"
  /\ setStatus(SystemStatus.BUILDING)
  /\ logs' = addLog(addLog(logs,
               "Project analysis: Kotlin DSL detected. Gradle 8.2 compatible.", "info"),
               "Executing build command: ./gradlew assembleDebug --no-daemon", "info")
  /\ pipeRuns' = [pipeRuns EXCEPT ![i].pc = "build",
                                  ![i].statusTrace = Append(@, SystemStatus.BUILDING)]
  /\ LogRoom(logs')
  /\ UNCHANGED <<app, provisioning, projectUrl, selectedFile, inputMode,
                 selfHealingScript, retryCount, activeTab, sourceFiles,
                 provRuns, uses, savedBlobs, svc, env, chat, buildProgress>>

\* After the build delay: the scripted failure, then analyzeBuildError is called.
AI_BuildFailed(i) ==
  /\ pipeRuns[i].pc = "build"
  /\ setStatus(SystemStatus.SELF_HEALING)
  /\ logs' = addLog(addLog(addLog(logs,
               "Build Failure: Task :app:processDebugMainManifest failed.", "error"),
               "Error: namespace not specified in the module's build.gradle file.", "error"),
               "Autonomous Agent: Initiating error analysis & self-healing...", "ai")
  /\ pipeRuns' = [pipeRuns EXCEPT ![i].pc = "analysis",
                                  ![i].statusTrace = Append(@, SystemStatus.SELF_HEALING)]
  /\ LogRoom(logs')
  /\ UNCHANGED <<app, provisioning, projectUrl, selectedFile, inputMode,
                 selfHealingScript, retryCount, activeTab, sourceFiles,
                 provRuns, uses, savedBlobs, svc, env, chat, buildProgress>>

PipelineAnalysisReplies ==
  { Rejected, NoText, Response(<<Tok("null")>>), Response(<<Tok("{"), Tok("}")>>),
    Response(AnalysisA), Response(AnalysisB) }

PipelineScriptReplies ==
  { Rejected, NoText, Response(<<"x">>),
    Response(fence \o <<"python", "\n", "x", "\n">> \o fence) }

\* What the try block does with the settled analyzeBuildError promise: the
\* thrown error, if the call or the first property read throws.
AnalysisError(result) ==
  IF result.kind = "throw" THEN result
  ELSE IF result.value.type = "null"
    THEN [kind |-> "throw",
          message |-> "Cannot read properties of null (reading 'issueDescription')"]
  ELSE [kind |-> "none", message |-> ""]

\* The outer catch of startPipeline.
OuterCatch_Silent(l, err) == l
OuterCatch(l, err) == addLog(l, "Self-healing interrupted: " \o err.message, "error")

\* The analyzeBuildError promise settles.
AI_AnalysisSettled(i) ==
  /\ pipeRuns[i].pc = "analysis"
  /\ \E reply \in PipelineAnalysisReplies :
       LET result == analyzeBuildError("", env.API_KEY, reply)
           err == AnalysisError(result)
       IN IF err.kind = "throw"
            THEN /\ logs' = OuterCatch(logs, err)
                 /\ setStatus(SystemStatus.FAILED)
                 /\ pipeRuns' = [pipeRuns EXCEPT ![i] =
                       [@ EXCEPT !.pc = "done",
                                 !.analysis = IF result.kind = "throw" THEN "failed" ELSE "returned",
                                 !.interrupted = @ + (Len(logs') - Len(logs)),
                                 !.statusTrace = Append(@, SystemStatus.FAILED)]]
            ELSE /\ logs' = addLog(addLog(addLog(logs,
                     "Agent Reasoning: " \o Lookup(result.value.members, "issueDescription"), "ai"),
                     "Root Cause: " \o Lookup(result.value.members, "rootCause"), "ai"),
                     "Patching file: " \o Lookup(result.value.members, "affectedFile") \o "...", "warning")
                 /\ pipeRuns' = [pipeRuns EXCEPT ![i].pc = "patch",
                                                 ![i].analysis = "returned"]
                 /\ UNCHANGED <<status, downloadProgress, isPreparingDownload, interval, effectPending>>
  /\ LogRoom(logs')
  /\ UNCHANGED <<app, provisioning, projectUrl, selectedFile, inputMode,
                 selfHealingScript, retryCount, activeTab, sourceFiles,
                 provRuns, uses, savedBlobs, svc, env, chat, buildProgress>>

\* After the rebuild delay.
AI_Rebuilt(i) ==
  /\ pipeRuns[i].pc = "rebuild"
  /\ setStatus(SystemStatus.TESTING)
  /\ logs' = addLog(addLog(logs,
               "Build SUCCESSFUL: APK generated at app/build/outputs/apk/debug/app-debug.apk", "success"),
               "Synchronizing with AVD \"TestDevice\"...", "info")
  /\ pipeRuns' = [pipeRuns EXCEPT ![i].pc = "sync",
                                  ![i].statusTrace = Append(@, SystemStatus.TESTING)]
  /\ LogRoom(logs')
  /\ UNCHANGED <<app, provisioning, projectUrl, selectedFile, inputMode,
                 selfHealingScript, retryCount, activeTab, sourceFiles,
                 provRuns, uses, savedBlobs, svc, env, chat, buildProgress>>

\* After the last delay: the run completes and asks for the export script.
AI_SmokeTested(i) ==
  /\ pipeRuns[i].pc = "intent"
  /\ setStatus(SystemStatus.COMPLETED)
  /\ logs' = addLog(addLog(logs, "Smoke test passed. App is stable.", "success"),
                    "Pipeline completed successfully. APK verified.", "success")
  /\ pipeRuns' = [pipeRuns EXCEPT ![i].pc = "script",
                                  ![i].statusTrace = Append(@, SystemStatus.COMPLETED)]
  /\ LogRoom(logs')
  /\ UNCHANGED <<app, provisioning, projectUrl, selectedFile, inputMode,
                 selfHealingScript, retryCount, activeTab, sourceFiles,
                 provRuns, uses, savedBlobs, svc, env, chat, buildProgress>>

\* The inner catch of startPipeline handles the script error itself.
InnerCatchHandles_Rethrows == FALSE
InnerCatchHandles == TRUE

\* The generateSelfHealingPythonScript promise settles.
AI_ScriptSettled(i) ==
  /\ pipeRuns[i].pc = "script"
  /\ \E reply \in PipelineScriptReplies :
       LET result == generateSelfHealingPythonScript("", env.API_KEY, reply) IN
       IF result.kind = "return"
         THEN /\ selfHealingScript' = result.value
              /\ logs' = addLog(logs, "Stand-alone Python Self-Healing script generated for export.", "success")
              /\ pipeRuns' = [pipeRuns EXCEPT ![i].pc = "done", ![i].script = "returned"]
              /\ UNCHANGED <<status, downloadProgress, isPreparingDownload, interval, effectPending>>
         ELSE IF InnerCatchHandles
           THEN /\ logs' = addLog(logs, "Note: Local export script generation skipped (API constraint).", "warning")
                /\ pipeRuns' = [pipeRuns EXCEPT ![i].pc = "done", ![i].script = "failed"]
                /\ UNCHANGED <<status, selfHealingScript, downloadProgress,
                               isPreparingDownload, interval, effectPending>>
           ELSE /\ logs' = OuterCatch(logs, result)
                /\ setStatus(SystemStatus.FAILED)
                /\ pipeRuns' = [pipeRuns EXCEPT ![i] =
                      [@ EXCEPT !.pc = "done", !.script = "failed",
                                !.statusTrace = Append(@, SystemStatus.FAILED)]]
                /\ UNCHANGED selfHealingScript
  /\ LogRoom(logs')
  /\ UNCHANGED <<app, provisioning, projectUrl, selectedFile, inputMode,
                 retryCount, activeTab, sourceFiles, provRuns, uses,
                 savedBlobs, svc, env, chat, buildProgress>>

\* The Flush Pipeline button, rendered once provisioning.avd is true.
FlushPipeline ==
  /\ provisioning.avd
  /\ uses.flushes < MaxFlushes
  /\ uses' = [uses EXCEPT !.flushes = @ + 1]
  /\ logs' = <<>>
  /\ setStatus(SystemStatus.IDLE)
  /\ selfHealingScript' = null
  /\ projectUrl' = ""
  /\ selectedFile' = null
  /\ UNCHANGED <<app, provisioning, inputMode, retryCount, activeTab,
                 sourceFiles, provRuns, pipeRuns, savedBlobs, svc, env, chat, buildProgress>>

InitAI ==
  /\ Mounted("ai")
  /\ svc = SvcIdle
  /\ env \in {[API_KEY |-> k] : k \in Keys}

NextAI ==
  \/ SetProjectUrl
  \/ SetInputMode
  \/ AI_HandleFileChange
  \/ AI_ClearSelectedFile
  \/ \E i \in 1..MaxProvAI : RunProvisioning(i)
  \/ \E i \in 1..MaxProvAI : ProvisioningStep(i)
  \/ AI_StartRejected
  \/ \E i \in 1..MaxRuns : AI_StartPipeline(i)
  \/ \E i \in 1..MaxRuns : AI_LogStep(i)
  \/ \E i \in 1..MaxRuns : AI_Analyzed(i)
  \/ \E i \in 1..MaxRuns : AI_BuildFailed(i)
  \/ \E i \in 1..MaxRuns : AI_AnalysisSettled(i)
  \/ \E i \in 1..MaxRuns : AI_Rebuilt(i)
  \/ \E i \in 1..MaxRuns : AI_SmokeTested(i)
  \/ \E i \in 1..MaxRuns : AI_ScriptSettled(i)
  \/ FlushPipeline

SpecAI == InitAI /\ [][NextAI]_vars

(* ========= RAM-upgrade pipeline (second App of Terminal.tsx) =========== *)
RamProvisioningState ==
  [java |-> FALSE, androidStudio |-> FALSE, sdk |-> FALSE, avd |-> FALSE,
   ramLimit |-> 2, cpuCores |-> 2]

ramInitialFiles ==
  << [name |-> "MainActivity.kt",
      path |-> "app/src/main/java/com/example/app/MainActivity.kt",
      language |-> "kotlin",
      content |-> << "package com.example.app ... setContentView(R.layout.activity_main)\n    }\n}" >>],
     [name |-> "build.gradle",
      path |-> "app/build.gradle",
      language |-> "gradle",
      content |-> << "android {",
                     "\n    compileSdk 34\n    defaultConfig { ... }\n}" >>] >>

\* runProvisioning up to its await; the button has no disabled attribute.
Ram_RunProvisioning(i) ==
  /\ FreeProv(i)
  /\ ~provisioning.avd
  /\ setStatus(SystemStatus.PROVISIONING)
  /\ logs' = addLog(logs, "Provisioning standard VPS node (2GB RAM, 2 vCPUs)...", "warning")
  /\ provRuns' = [provRuns EXCEPT ![i] = "node"]
  /\ LogRoom(logs')
  /\ UNCHANGED <<app, provisioning, projectUrl, selectedFile, inputMode,
                 selfHealingScript, retryCount, activeTab, sourceFiles,
                 pipeRuns, uses, savedBlobs, svc, env, chat, buildProgress>>

\* The timer of runProvisioning fires.
Ram_Provisioned(i) ==
  /\ provRuns[i] = "node"
  /\ provisioning' = [java |-> TRUE, androidStudio |-> TRUE, sdk |-> TRUE,
                      avd |-> TRUE, ramLimit |-> 2, cpuCores |-> 2]
  /\ logs' = addLog(logs, "Infrastructure Verified. 2GB Node ready.", "success")
  /\ setStatus(SystemStatus.IDLE)
  /\ provRuns' = [provRuns EXCEPT ![i] = "done"]
  /\ LogRoom(logs')
  /\ UNCHANGED <<app, projectUrl, selectedFile, inputMode, selfHealingScript,
                 retryCount, activeTab, sourceFiles, pipeRuns, uses,
                 savedBlobs, svc, env, chat, buildProgress>>

\* upgradeHardware: the new provisioning state and the log list after it.
UpgradedProvisioning(p) == [p EXCEPT !.ramLimit = 8, !.cpuCores = 4]
UpgradeLogs(l) ==
  addLog(addLog(l,
    "System: Vertical scaling initiated. Instance upgraded to 8GB RAM (High Settings), 4 vCPUs.", "warning"),
    "Infrastructure Updated: \"High Performance Mode\" active. Resuming pipeline...", "success")

\* The sidebar button, rendered while status is FAILED and ramLimit < 4.
Ram_UpgradeButton ==
  /\ status = SystemStatus.FAILED
  /\ provisioning.ramLimit < 4
  /\ provisioning' = UpgradedProvisioning(provisioning)
  /\ logs' = UpgradeLogs(logs)
  /\ LogRoom(logs')
  /\ UNCHANGED <<app, status, projectUrl, selectedFile, inputMode,
                 selfHealingScript, retryCount, activeTab, sourceFiles,
                 downloadProgress, isPreparingDownload, interval, provRuns,
                 pipeRuns, uses, savedBlobs, svc, env, chat, buildProgress, effectPending>>

\* The START BUILD / RETRY WITH NEW SETTINGS button is rendered once
\* provisioning.avd is true and enabled while status is IDLE or FAILED.
Ram_StartEnabled ==
  provisioning.avd /\ status \in {SystemStatus.IDLE, SystemStatus.FAILED}

\* startPipeline returns at its input check.
Ram_StartRejected ==
  /\ Ram_StartEnabled
  /\ SourceInputMissing
  /\ uses.rejected < MaxRejected
  /\ uses' = [uses EXCEPT !.rejected = @ + 1]
  /\ logs' = addLog(logs, "Error: Source input required.", "error")
  /\ LogRoom(logs')
  /\ UNCHANGED <<app, status, provisioning, projectUrl, selectedFile, inputMode,
                 selfHealingScript, retryCount, activeTab, sourceFiles,
                 downloadProgress, isPreparingDownload, interval, provRuns,
                 pipeRuns, savedBlobs, svc, env, chat, buildProgress, effectPending>>

\* startPipeline up to its first await.  The function object the button
\* calls was created by the render that drew the button, so the
\* provisioning it reads later is the one of the moment of the click.
Ram_StartPipeline(i) ==
  /\ FreePipe(i)
  /\ Ram_StartEnabled
  /\ ~SourceInputMissing
  /\ retryCount' = 0
  /\ setStatus(GENERATING_CODE)
  /\ logs' = addLog(logs, "Agent: Designing application architecture layers...", "ai")
  /\ pipeRuns' = [pipeRuns EXCEPT ![i] =
        [pc |-> "generate", currentRetry |-> 0, isStable |-> FALSE,
         provisioning |-> provisioning,
         statusTrace |-> <<GENERATING_CODE>>, cycles |-> <<>>]]
  /\ LogRoom(logs')
  /\ UNCHANGED <<app, provisioning, projectUrl, selectedFile, inputMode,
                 selfHealingScript, activeTab, sourceFiles, provRuns, uses,
                 savedBlobs, svc, env, chat, buildProgress>>

maxRetriesRam == 4

\* while (currentRetry < maxRetries && !isStable) with the locals r and the
\* log list l: the head of the next build cycle, or the code after the loop.
RamLoopContinues_Never(r) == FALSE
RamLoopContinues_Once(r) == r.currentRetry < 1 /\ ~r.isStable
RamLoopContinues(r) == r.currentRetry < maxRetriesRam /\ ~r.isStable

Ram_LoopHead(i, r, l, tab) ==
  IF RamLoopContinues(r)
    THEN /\ retryCount' = r.currentRetry
         /\ setStatus(SystemStatus.BUILDING)
         /\ logs' = addLog(l, "Build Cycle #" \o ToString(r.currentRetry + 1)
                              \o ": Compiling dependencies...", "warning")
         /\ activeTab' = tab
         /\ pipeRuns' = [pipeRuns EXCEPT ![i] =
               [r EXCEPT !.pc = "build",
                         !.statusTrace = Append(@, SystemStatus.BUILDING)]]
    ELSE IF r.isStable
      THEN /\ setStatus(SystemStatus.COMPLETED)
           /\ logs' = addLog(l, "Pipeline fully verified. APK ready.", "success")
           /\ activeTab' = "terminal"
           /\ pipeRuns' = [pipeRuns EXCEPT ![i] =
                 [r EXCEPT !.pc = "done",
                           !.statusTrace = Append(@, SystemStatus.COMPLETED)]]
           /\ UNCHANGED retryCount
      ELSE /\ logs' = l
           /\ activeTab' = tab
           /\ pipeRuns' = [pipeRuns EXCEPT ![i] = [r EXCEPT !.pc = "done"]]
           /\ UNCHANGED <<retryCount, status, downloadProgress,
                          isPreparingDownload, interval, effectPending>>

\* After the code-generation delay.
Ram_Generated(i) ==
  /\ pipeRuns[i].pc = "generate"
  /\ sourceFiles' = ramInitialFiles
  /\ Ram_LoopHead(i, pipeRuns[i], logs, "source")
  /\ LogRoom(logs')
  /\ UNCHANGED <<app, provisioning, projectUrl, selectedFile, inputMode,
                 selfHealingScript, provRuns, uses, savedBlobs, svc, env, chat, buildProgress>>

\* After the build delay of a cycle.
Ram_BuildDone(i) ==
  /\ pipeRuns[i].pc = "build"
  /\ IF pipeRuns[i].currentRetry = 0
       THEN /\ logs' = addLog(logs, "Build Failure: namespace not specified.", "error")
            /\ setStatus(SystemStatus.SELF_HEALING)
            /\ pipeRuns' = [pipeRuns EXCEPT ![i] =
                  [@ EXCEPT !.pc = "patchNamespace",
                            !.cycles = Append(@, "namespace"),
                            !.statusTrace = Append(@, SystemStatus.SELF_HEALING)]]
       ELSE /\ setStatus(SystemStatus.TESTING)
            /\ logs' = addLog(logs, "Simulator Check: Current Instance RAM = "
                                    \o ToString(pipeRuns[i].provisioning.ramLimit) \o "GB", "info")
            /\ pipeRuns' = [pipeRuns EXCEPT ![i] =
                  [@ EXCEPT !.pc = "test",
                            !.statusTrace = Append(@, SystemStatus.TESTING)]]
  /\ LogRoom(logs')
  /\ UNCHANGED <<app, provisioning, projectUrl, selectedFile, inputMode,
                 selfHealingScript, retryCount, activeTab, sourceFiles,
                 provRuns, uses, savedBlobs, svc, env, chat, buildProgress>>

\* After the self-healing delay: the namespace patch.
Ram_NamespacePatched(i) ==
  /\ pipeRuns[i].pc = "patchNamespace"
  /\ sourceFiles' = NamespacePatch(sourceFiles)
  /\ Ram_LoopHead(i, [pipeRuns[i] EXCEPT !.currentRetry = @ + 1],
                  addLog(logs, "Patch Applied: Explicit namespace declared.", "success"),
                  activeTab)
  /\ LogRoom(logs')
  /\ UNCHANGED <<app, provisioning, projectUrl, selectedFile, inputMode,
                 selfHealingScript, provRuns, uses, savedBlobs, svc, env, chat, buildProgress>>

OomChatMessage ==
  [role |-> "agent", text |-> "I've encountered a fatal OutOfMemoryError. ... Should I upgrade to 'High Settings' (8GB RAM)?"]

\* if (provisioning.ramLimit < 4), on the provisioning object p the run reads
OutOfMemory_Never(p) == FALSE
OutOfMemory(p) == p.ramLimit < 4

\* After the simulator delay: the memory check of the TESTING stage.
Ram_Tested(i) ==
  /\ pipeRuns[i].pc = "test"
  /\ IF OutOfMemory(pipeRuns[i].provisioning)
       THEN /\ logs' = addLog(addLog(addLog(logs,
                 "Runtime Error: java.lang.OutOfMemoryError (Heap limit exceeded)", "error"),
                 "Reason: 2GB standard settings insufficient for 4K assets.", "error"),
                 "Agent: Infrastructure bottleneck detected. Awaiting user guidance...", "ai")
            /\ setStatus(SystemStatus.FAILED)
            /\ activeTab' = "chat"
            /\ chat' = [chat EXCEPT !.messages = Append(@, OomChatMessage)]
            /\ pipeRuns' = [pipeRuns EXCEPT ![i] =
                  [@ EXCEPT !.pc = "done",
                            !.cycles = Append(@, "memory"),
                            !.statusTrace = Append(@, SystemStatus.FAILED)]]
            /\ UNCHANGED retryCount
       ELSE /\ Ram_LoopHead(i, [pipeRuns[i] EXCEPT !.isStable = TRUE,
                                                   !.cycles = Append(@, "stable")],
                            addLog(logs, "Smoke Test: Success. App is stable on 8GB Node.", "success"),
                            activeTab)
            /\ UNCHANGED chat
  /\ LogRoom(logs')
  /\ UNCHANGED <<app, provisioning, projectUrl, selectedFile, inputMode,
                 selfHealingScript, sourceFiles, provRuns, uses, savedBlobs,
                 svc, env, buildProgress>>

(* ------------------------------ chat panel ------------------------------ *)
\* The texts typed into the chat field, as character sequences.
ChatTexts ==
  { <<>>, <<"U", "p", "g", "r", "a", "d", "e">>, <<"F", "i", "x", " ", "i", "t">>,
    <<"h", "i">> }

toLowerCase(t) ==
  [k \in 1..Len(t) |->
     CASE t[k] = "U" -> "u" [] t[k] = "F" -> "f" [] OTHER -> t[k]]

\* String.prototype.includes
includes(t, pat) ==
  \E k \in 1..(Len(t) - Len(pat) + 1) : SubSeq(t, k, k + Len(pat) - 1) = pat

UpgradeKeywords ==
  { <<"u", "p", "g", "r", "a", "d", "e">>,
    <<"h", "i", "g", "h", " ", "s", "e", "t", "t", "i", "n", "g", "s">>,
    <<"i", "n", "c", "r", "e", "a", "s", "e", " ", "r", "a", "m">>,
    <<"f", "i", "x">> }

AsksForUpgrade(userMsg) ==
  \E w \in UpgradeKeywords : includes(toLowerCase(userMsg), w)

\* The sidebar item that opens the chat panel.
Ram_OpenChat ==
  /\ activeTab # "chat"
  /\ activeTab' = "chat"
  /\ UNCHANGED <<app, status, logs, provisioning, projectUrl, selectedFile,
                 inputMode, selfHealingScript, retryCount, sourceFiles,
                 downloadProgress, isPreparingDownload, interval, provRuns,
                 pipeRuns, uses, savedBlobs, svc, env, chat, buildProgress, effectPending>>

\* sendChatMessage up to its await, with the text of the chat field.
Ram_SendChatMessage ==
  /\ activeTab = "chat"
  /\ uses.chats < MaxChats
  /\ uses' = [uses EXCEPT !.chats = @ + 1]
  /\ \E typed \in ChatTexts :
       LET userMsg == trim(typed) IN
       IF userMsg = <<>>
         THEN chat' = [chat EXCEPT !.current = ""]
         ELSE chat' = [chat EXCEPT
                 !.messages = Append(@, [role |-> "user", text |-> Join(userMsg)]),
                 !.current = "",
                 !.loading = TRUE,
                 !.calls = Append(@, userMsg)]
  /\ UNCHANGED <<app, status, logs, provisioning, projectUrl, selectedFile,
                 inputMode, selfHealingScript, retryCount, activeTab,
                 sourceFiles, downloadProgress, isPreparingDownload, interval,
                 provRuns, pipeRuns, savedBlobs, svc, env, buildProgress, effectPending>>

ChatReplies == {Rejected, NoText, Response(<<"o", "k">>)}

RemoveAt(q, k) == SubSeq(q, 1, k - 1) \o SubSeq(q, k + 1, Len(q))

\* The generateContent promise of one sendChatMessage call settles.
Ram_ChatSettled ==
  /\ \E k \in 1..Len(chat.calls), reply \in ChatReplies :
       LET userMsg == chat.calls[k]
           failed == env.API_KEY = "" \/ reply.kind = "reject"
           agentText == IF reply.kind = "text" /\ reply.text # <<>>
                          THEN Join(reply.text)
                          ELSE "Instruction received. Optimizing environment."
       IN IF failed
            THEN /\ chat' = [chat EXCEPT
                       !.messages = Append(@, [role |-> "agent",
                                               text |-> "I'm processing the environment changes now."]),
                       !.loading = FALSE,
                       !.calls = RemoveAt(@, k)]
                 /\ UNCHANGED <<provisioning, logs>>
            ELSE /\ chat' = [chat EXCEPT
                       !.messages = Append(@, [role |-> "agent", text |-> agentText]),
                       !.loading = FALSE,
                       !.calls = RemoveAt(@, k)]
                 /\ IF AsksForUpgrade(userMsg)
                      THEN /\ provisioning' = UpgradedProvisioning(provisioning)
                           /\ logs' = UpgradeLogs(logs)
                      ELSE UNCHANGED <<provisioning, logs>>
  /\ LogRoom(logs')
  /\ UNCHANGED <<app, status, projectUrl, selectedFile, inputMode,
                 selfHealingScript, retryCount, activeTab, sourceFiles,
                 downloadProgress, isPreparingDownload, interval, provRuns,
                 pipeRuns, uses, savedBlobs, svc, env, buildProgress, effectPending>>

InitRam ==
  /\ app = "ram"
  /\ status = SystemStatus.IDLE
  /\ logs = <<>>
  /\ provisioning = RamProvisioningState
  /\ projectUrl = ""
  /\ selectedFile = null
  /\ inputMode = "url"
  /\ selfHealingScript = null
  /\ retryCount = 0
  /\ activeTab = "terminal"
  /\ sourceFiles = <<>>
  /\ downloadProgress = 0
  /\ isPreparingDownload = FALSE
  /\ interval = FALSE
  /\ provRuns = [i \in 1..MaxProv |-> "none"]
  /\ pipeRuns = [i \in 1..MaxRuns |-> NoRun]
  /\ uses = [picks |-> 0, rejected |-> 0, downloads |-> 0, flushes |-> 0, chats |-> 0]
  /\ savedBlobs = 0
  /\ chat = NoChat
  /\ buildProgress = 0
  /\ effectPending = FALSE
  /\ svc = SvcIdle
  /\ env \in {[API_KEY |-> k] : k \in Keys}

NextRam ==
  \/ SetProjectUrl
  \/ \E i \in 1..MaxProvAI : Ram_RunProvisioning(i)
  \/ \E i \in 1..MaxProvAI : Ram_Provisioned(i)
  \/ Ram_UpgradeButton
  \/ Ram_StartRejected
  \/ \E i \in 1..MaxRuns : Ram_StartPipeline(i)
  \/ \E i \in 1..MaxRuns : Ram_Generated(i)
  \/ \E i \in 1..MaxRuns : Ram_BuildDone(i)
  \/ \E i \in 1..MaxRuns : Ram_NamespacePatched(i)
  \/ \E i \in 1..MaxRuns : Ram_Tested(i)
  \/ Ram_OpenChat
  \/ Ram_SendChatMessage
  \/ Ram_ChatSettled

SpecRam == InitRam /\ [][NextRam]_vars

(* ========== progress-bar pipeline (first App of src/App.tsx) =========== *)
BarProvisioningState ==
  [java |-> FALSE, androidStudio |-> FALSE, sdk |-> FALSE, avd |-> FALSE,
   systemRam |-> 16, systemStorage |-> 100, phoneRam |-> 6, phoneStorage |-> 10,
   cpuCores |-> 8]

Min(a, b) == IF a < b THEN a ELSE b

\* for (let i = 0; i <= 100; i += 20): the values of i, kept in provRuns as
\* ToString(i) while the sequence waits for the timer of that iteration.
BarProvPoints == {0, 20, 40, 60, 80, 100}

\* runProvisioning up to its first await.
Bar_RunProvisioning(i) ==
  /\ FreeProv(i)
  /\ ~provisioning.avd
  /\ setStatus(SystemStatus.PROVISIONING)
  /\ buildProgress' = 0
  /\ logs' = addLog(logs, "Provisioning high-performance instance (16GB RAM, 100GB NVMe)...", "warning")
  /\ provRuns' = [provRuns EXCEPT ![i] = ToString(0)]
  /\ LogRoom(logs')
  /\ UNCHANGED <<app, provisioning, projectUrl, selectedFile, inputMode,
                 selfHealingScript, retryCount, activeTab, sourceFiles,
                 pipeRuns, uses, savedBlobs, svc, env, chat>>

\* The timer of one iteration fires: the rest of the iteration and the code
\* up to the next await, or the code after the loop.
Bar_ProvisioningStep(i) ==
  /\ ProvActive(i)
  /\ LET k == CHOOSE p \in BarProvPoints : ToString(p) = provRuns[i]
         l == IF k = 20
                THEN addLog(logs, "Kernel: Linux 6.2.0-generic generic-vps optimized", "info")
                ELSE IF k = 60
                  THEN addLog(logs, "Dependencies: Android SDK Platform 34 installed", "info")
                  ELSE logs
     IN IF k + 20 <= 100
          THEN /\ buildProgress' = k + 20
               /\ logs' = l
               /\ provRuns' = [provRuns EXCEPT ![i] = ToString(k + 20)]
               /\ UNCHANGED <<status, downloadProgress, isPreparingDownload,
                              interval, provisioning, effectPending>>
          ELSE /\ provisioning' = [provisioning EXCEPT !.java = TRUE,
                                     !.androidStudio = TRUE, !.sdk = TRUE, !.avd = TRUE]
               /\ logs' = addLog(l, "Infrastructure Verified. High-speed pipeline active.", "success")
               /\ setStatus(SystemStatus.IDLE)
               /\ buildProgress' = 0
               /\ provRuns' = [provRuns EXCEPT ![i] = "done"]
  /\ LogRoom(logs')
  /\ UNCHANGED <<app, projectUrl, selectedFile, inputMode, selfHealingScript,
                 retryCount, activeTab, sourceFiles, pipeRuns, uses, savedBlobs,
                 svc, env, chat>>

\* The start button is rendered once provisioning.avd is set; its disabled
\* attribute.
Bar_StartEnabled ==
  /\ provisioning.avd
  /\ status \in {SystemStatus.IDLE, SystemStatus.FAILED, SystemStatus.COMPLETED}

\* startPipeline returning at its input check.
Bar_StartRejected ==
  /\ Bar_StartEnabled
  /\ SourceInputMissing
  /\ uses.rejected < MaxRejected
  /\ uses' = [uses EXCEPT !.rejected = @ + 1]
  /\ logs' = addLog(logs, "Error: Source input required.", "error")
  /\ LogRoom(logs')
  /\ UNCHANGED <<app, status, provisioning, projectUrl, selectedFile, inputMode,
                 selfHealingScript, retryCount, activeTab, sourceFiles,
                 downloadProgress, isPreparingDownload, interval, provRuns,
                 pipeRuns, savedBlobs, svc, env, chat, buildProgress, effectPending>>

steps ==
  << [status |-> GENERATING_CODE, log |-> "Architecture design: Jetpack Compose + Hilt",
      start |-> 0, end |-> 15],
     [status |-> SystemStatus.BUILDING, log |-> "Dependency resolution: Gradle sync 8.2",
      start |-> 15, end |-> 40],
     [status |-> SystemStatus.BUILDING, log |-> "Compilation: Optimizing bytecode for 16GB RAM node",
      start |-> 40, end |-> 75],
     [status |-> SystemStatus.TESTING, log |-> "Deployment: Simulating on 6GB RAM Smartphone (10GB Storage)",
      start |-> 75, end |-> 95],
     [status |-> SystemStatus.COMPLETED, log |-> "Pipeline Finalized: Build Certified",
      start |-> 95, end |-> 100] >>

\* Math.floor(Math.random() * 5) + 2
ProgressIncrements == 2..6

\* One pass through the body of while (currentStepProgress < step.end), from
\* the value c, up to its await.
ProgressPass(i, r, c, inc) ==
  LET next == Min(c + inc, steps[r.step].end)
  IN /\ buildProgress' = next
     /\ pipeRuns' = [pipeRuns EXCEPT ![i] = [r EXCEPT !.currentStepProgress = next]]

\* The head of the for-loop iteration for steps[k], with the locals r and the
\* log list l, up to the first await of its while loop (start < end in every
\* row of the table, so the body is entered).
Bar_EnterStep(i, r, k, l) ==
  /\ setStatus(steps[k].status)
  /\ logs' = addLog(l, steps[k].log,
                    IF steps[k].status = SystemStatus.COMPLETED THEN "success" ELSE "info")
  /\ \E inc \in ProgressIncrements :
       ProgressPass(i, [r EXCEPT !.step = k,
                                 !.statusTrace = Append(@, steps[k].status)],
                    steps[k].start, inc)

barInitialFiles ==
  << [name |-> "MainActivity.kt",
      path |-> "app/src/main/java/com/example/app/MainActivity.kt",
      language |-> "kotlin",
      content |-> <<"package com.example.app ... // Optimized for 6GB RAM Smartphone ...">>],
     [name |-> "build.gradle",
      path |-> "app/build.gradle",
      language |-> "gradle",
      content |-> <<"android {", " namespace \"com.example.app\"", " compileSdk 34 ... }">>] >>

\* startPipeline past its input check, up to its first await.
Bar_StartPipeline(i) ==
  /\ FreePipe(i)
  /\ Bar_StartEnabled
  /\ ~SourceInputMissing
  /\ Bar_EnterStep(i, [pc |-> "progress", step |-> 1, currentStepProgress |-> 0,
                       statusTrace |-> <<GENERATING_CODE>>],
                   1, addLog(logs, "Agent: Designing application architecture layers...", "ai"))
  /\ LogRoom(logs')
  /\ UNCHANGED <<app, provisioning, projectUrl, selectedFile, inputMode,
                 selfHealingScript, retryCount, activeTab, sourceFiles, provRuns,
                 uses, savedBlobs, svc, env, chat>>

\* A progress timer of run i fires: the loop condition is tested again.
Bar_Advance(i) ==
  /\ pipeRuns[i].pc = "progress"
  /\ LET r == pipeRuns[i] IN
     IF r.currentStepProgress < steps[r.step].end
       THEN /\ \E inc \in ProgressIncrements :
                 ProgressPass(i, r, r.currentStepProgress, inc)
            /\ UNCHANGED <<status, logs, downloadProgress, isPreparingDownload,
                           interval, sourceFiles, activeTab, effectPending>>
       ELSE IF r.step < Len(steps)
         THEN /\ Bar_EnterStep(i, r, r.step + 1, logs)
              /\ UNCHANGED <<sourceFiles, activeTab>>
         ELSE /\ sourceFiles' = barInitialFiles
              /\ activeTab' = "source"
              /\ pipeRuns' = [pipeRuns EXCEPT ![i] = [r EXCEPT !.pc = "done"]]
              /\ UNCHANGED <<status, logs, downloadProgress, isPreparingDownload,
                             interval, buildProgress, effectPending>>
  /\ LogRoom(logs')
  /\ UNCHANGED <<app, provisioning, projectUrl, selectedFile, inputMode,
                 selfHealingScript, retryCount, provRuns, uses, savedBlobs,
                 svc, env, chat>>

\* Math.floor(Math.random() * 15) + 5
BarTickIncrements_Zero == {0}
BarTickIncrements == 5..19

\* One firing of the download-progress interval.
Bar_DownloadTick ==
  /\ interval
  /\ IF downloadProgress >= 100
       THEN /\ interval' = FALSE
            /\ isPreparingDownload' = FALSE
            /\ downloadProgress' = 100
       ELSE /\ \E inc \in BarTickIncrements : downloadProgress' = downloadProgress + inc
            /\ UNCHANGED <<interval, isPreparingDownload>>
  /\ UNCHANGED <<app, status, logs, provisioning, projectUrl, selectedFile,
                 inputMode, selfHealingScript, retryCount, activeTab,
                 sourceFiles, provRuns, pipeRuns, uses, savedBlobs, svc, env,
                 chat, buildProgress, effectPending>>

\* handleDownload, called from the download button (rendered while status is
\* COMPLETED, disabled while downloadProgress < 100).
Bar_HandleDownload ==
  /\ DownloadRendered
  /\ downloadProgress >= 100
  /\ uses.downloads < MaxDownloads
  /\ uses' = [uses EXCEPT !.downloads = @ + 1]
  /\ savedBlobs' = savedBlobs + 1
  /\ logs' = addLog(logs, "APK Binary (High Perf) saved successfully.", "success")
  /\ LogRoom(logs')
  /\ UNCHANGED <<app, status, provisioning, projectUrl, selectedFile,
                 inputMode, selfHealingScript, retryCount, activeTab,
                 sourceFiles, downloadProgress, isPreparingDownload, interval,
                 provRuns, pipeRuns, svc, env, chat, buildProgress, effectPending>>

InitBar ==
  /\ app = "bar"
  /\ status = SystemStatus.IDLE
  /\ logs = <<>>
  /\ provisioning = BarProvisioningState
  /\ projectUrl = ""
  /\ selectedFile = null
  /\ inputMode = "url"
  /\ selfHealingScript = null
  /\ retryCount = 0
  /\ activeTab = "terminal"
  /\ sourceFiles = <<>>
  /\ downloadProgress = 0
  /\ isPreparingDownload = FALSE
  /\ interval = FALSE
  /\ provRuns = [i \in 1..MaxProv |-> "none"]
  /\ pipeRuns = [i \in 1..MaxRuns |-> NoRun]
  /\ uses = [picks |-> 0, rejected |-> 0, downloads |-> 0, flushes |-> 0]
  /\ savedBlobs = 0
  /\ chat = NoChat
  /\ buildProgress = 0
  /\ effectPending = FALSE
  /\ svc = SvcIdle
  /\ env = [API_KEY |-> ""]

\* React runs the pending effect callbacks before it renders another update,
\* so the only operation that can see the render in between is a click whose
\* handler reads it: handleDownload.
EffectsFlushed == ~effectPending

NextBar ==
  \/ EffectsFlushed /\ SetProjectUrl
  \/ EffectsFlushed /\ \E i \in 1..MaxProvAI : Bar_RunProvisioning(i)
  \/ EffectsFlushed /\ \E i \in 1..MaxProvAI : Bar_ProvisioningStep(i)
  \/ EffectsFlushed /\ Bar_StartRejected
  \/ EffectsFlushed /\ \E i \in 1..MaxRuns : Bar_StartPipeline(i)
  \/ EffectsFlushed /\ \E i \in 1..MaxRuns : Bar_Advance(i)
  \/ EffectsFlushed /\ Bar_DownloadTick
  \/ Bar_HandleDownload
  \/ RunEffect

SpecBar == InitBar /\ [][NextBar]_vars

(* ===== scripted pipelines under fair scheduling (timers, AI calls) ===== *)
\* Either the retry-loop App or the RAM-upgrade App is mounted.
InitScripted == InitRetry \/ InitRam

\* The operations of the mounted App, with one runProvisioning sequence.
NextScripted ==
  \/ SetProjectUrl
  \/ app = "retry" /\ SetInputMode
  \/ app = "retry" /\ Retry_HandleFileChange
  \/ app = "retry" /\ \E i \in 1..MaxProvAI : RunProvisioning(i)
  \/ app = "retry" /\ \E i \in 1..MaxProvAI : ProvisioningStep(i)
  \/ app = "retry" /\ Retry_StartRejected
  \/ app = "retry" /\ \E i \in 1..MaxRuns : Retry_StartPipeline(i)
  \/ app = "retry" /\ \E i \in 1..MaxRuns : Retry_Generated(i)
  \/ app = "retry" /\ \E i \in 1..MaxRuns : Retry_BuildDone(i)
  \/ app = "retry" /\ \E i \in 1..MaxRuns : Retry_NamespacePatched(i)
  \/ app = "retry" /\ \E i \in 1..MaxRuns : Retry_Installed(i)
  \/ app = "retry" /\ \E i \in 1..MaxRuns : Retry_Launched(i)
  \/ app = "retry" /\ \E i \in 1..MaxRuns : Retry_MemoryPatched(i)
  \/ app = "retry" /\ Retry_DownloadTick
  \/ app = "retry" /\ Retry_HandleDownload
  \/ app = "retry" /\ Retry_Reload
  \/ app = "ram" /\ \E i \in 1..MaxProvAI : Ram_RunProvisioning(i)
  \/ app = "ram" /\ \E i \in 1..MaxProvAI : Ram_Provisioned(i)
  \/ app = "ram" /\ Ram_UpgradeButton
  \/ app = "ram" /\ Ram_StartRejected
  \/ app = "ram" /\ \E i \in 1..MaxRuns : Ram_StartPipeline(i)
  \/ app = "ram" /\ \E i \in 1..MaxRuns : Ram_Generated(i)
  \/ app = "ram" /\ \E i \in 1..MaxRuns : Ram_BuildDone(i)
  \/ app = "ram" /\ \E i \in 1..MaxRuns : Ram_NamespacePatched(i)
  \/ app = "ram" /\ \E i \in 1..MaxRuns : Ram_Tested(i)
  \/ app = "ram" /\ Ram_OpenChat
  \/ app = "ram" /\ Ram_SendChatMessage
  \/ app = "ram" /\ Ram_ChatSettled

\* The continuation of run i after one of its setTimeout promises resolves.
TimerStep(i) ==
  \/ /\ app = "retry"
     /\ \/ Retry_Generated(i)
        \/ Retry_BuildDone(i)
        \/ Retry_NamespacePatched(i)
        \/ Retry_Installed(i)
        \/ Retry_Launched(i)
        \/ Retry_MemoryPatched(i)
  \/ /\ app = "ram"
     /\ \/ Ram_Generated(i)
        \/ Ram_BuildDone(i)
        \/ Ram_NamespacePatched(i)
        \/ Ram_Tested(i)

\* The continuation of provisioning sequence i after its timer fires.
ProvisioningTimerStep(i) ==
  \/ app = "retry" /\ ProvisioningStep(i)
  \/ app = "ram" /\ Ram_Provisioned(i)

\* Every pending timer fires, the download interval keeps firing while it is
\* set, and every pending AI call returns or fails.  Nothing obliges the user
\* to click or type.
FairScripted ==
  /\ \A i \in 1..MaxRuns : WF_vars(TimerStep(i))
  /\ \A i \in 1..MaxProvAI : WF_vars(ProvisioningTimerStep(i))
  /\ WF_vars(app = "retry" /\ Retry_DownloadTick)
  /\ WF_vars(app = "ram" /\ Ram_ChatSettled)

SpecScripted == InitScripted /\ [][NextScripted]_vars /\ FairScripted

(* ====== download preparation under fair scheduling (both effects) ====== *)
\* Either the retry-loop App or the progress-bar App is mounted: the two Apps
\* whose download-progress effect is the subject of the download claims.
InitDownload == InitRetry \/ InitBar

NextDownload ==
  \/ EffectsFlushed /\ SetProjectUrl
  \/ app = "retry" /\ SetInputMode
  \/ app = "retry" /\ Retry_HandleFileChange
  \/ app = "retry" /\ \E i \in 1..MaxProvAI : RunProvisioning(i)
  \/ app = "retry" /\ \E i \in 1..MaxProvAI : ProvisioningStep(i)
  \/ app = "retry" /\ Retry_StartRejected
  \/ app = "retry" /\ \E i \in 1..MaxRuns : Retry_StartPipeline(i)
  \/ app = "retry" /\ \E i \in 1..MaxRuns : Retry_Generated(i)
  \/ app = "retry" /\ \E i \in 1..MaxRuns : Retry_BuildDone(i)
  \/ app = "retry" /\ \E i \in 1..MaxRuns : Retry_NamespacePatched(i)
  \/ app = "retry" /\ \E i \in 1..MaxRuns : Retry_Installed(i)
  \/ app = "retry" /\ \E i \in 1..MaxRuns : Retry_Launched(i)
  \/ app = "retry" /\ \E i \in 1..MaxRuns : Retry_MemoryPatched(i)
  \/ app = "retry" /\ Retry_DownloadTick
  \/ app = "retry" /\ Retry_HandleDownload
  \/ app = "retry" /\ Retry_Reload
  \/ app = "bar" /\ EffectsFlushed /\ \E i \in 1..MaxProvAI : Bar_RunProvisioning(i)
  \/ app = "bar" /\ EffectsFlushed /\ \E i \in 1..MaxProvAI : Bar_ProvisioningStep(i)
  \/ app = "bar" /\ EffectsFlushed /\ Bar_StartRejected
  \/ app = "bar" /\ EffectsFlushed /\ \E i \in 1..MaxRuns : Bar_StartPipeline(i)
  \/ app = "bar" /\ EffectsFlushed /\ \E i \in 1..MaxRuns : Bar_Advance(i)
  \/ app = "bar" /\ EffectsFlushed /\ Bar_DownloadTick
  \/ app = "bar" /\ Bar_HandleDownload
  \/ app = "bar" /\ RunEffect

\* The interval callback of the mounted App.
DownloadTick ==
  \/ app = "retry" /\ Retry_DownloadTick
  \/ app = "bar" /\ EffectsFlushed /\ Bar_DownloadTick

\* Every pending timer fires, the interval keeps firing while it is set and
\* pending effect callbacks run.
FairDownload ==
  /\ \A i \in 1..MaxRuns : WF_vars(TimerStep(i) \/ (app = "bar" /\ Bar_Advance(i)))
  /\ \A i \in 1..MaxProvAI :
       WF_vars(ProvisioningTimerStep(i) \/ (app = "bar" /\ Bar_ProvisioningStep(i)))
  /\ WF_vars(DownloadTick)
  /\ WF_vars(app = "bar" /\ RunEffect)

SpecDownload == InitDownload /\ [][NextDownload]_vars /\ FairDownload

(* ===================== claims: AI-analysis pipeline ==================== *)
Last(q) == q[Len(q)]
Started(i) == pipeRuns[i].pc # "none"
Finished(i) == pipeRuns[i].pc = "done"
TraceValues(q) == {q[k] : k \in 1..Len(q)}

\* The step in which the Flush Pipeline button acts.
FlushStep == uses'.flushes = uses.flushes + 1 /\ logs' = <<>>

\* C4 as stated: the log list is append-only, every entry stays at its
\* position with its message and severity and the length never decreases.
C4_AppendOnly == [][IsPrefix(logs, logs')]_vars

\* C4 amended: the log list is append-only in every step except a click on
\* the Flush Pipeline button, which empties it.
C4_AppendOnlyExceptFlush == [][IsPrefix(logs, logs') \/ FlushStep]_vars

\* The list was flushed and entries have been appended since.
C4_Witness == uses.flushes = 1 /\ Len(logs) >= 2

AnalysisFailureLogs ==
  { LogEntry("Self-healing interrupted: " \o e.message, "error")
      : e \in {NoKeyError, RequestError, SyntaxError} }

\* C6: when the analyzeBuildError call of a run fails (no API key, request
\* rejected, unparsable response), that step appends exactly one error log
\* 'Self-healing interrupted: ...' and sets status FAILED, and the run ends
\* there: it never sets status TESTING or COMPLETED.
C6_AnalysisFailureCaught ==
  /\ [][\A i \in 1..MaxRuns :
          (pipeRuns[i].pc = "analysis" /\ pipeRuns'[i].analysis = "failed") =>
             /\ Len(logs') = Len(logs) + 1
             /\ IsPrefix(logs, logs')
             /\ Last(logs') \in AnalysisFailureLogs
             /\ status' = SystemStatus.FAILED]_vars
  /\ [](\A i \in 1..MaxRuns : (Started(i) /\ pipeRuns[i].analysis = "failed") =>
          /\ pipeRuns[i].pc = "done"
          /\ pipeRuns[i].interrupted = 1
          /\ Last(pipeRuns[i].statusTrace) = SystemStatus.FAILED
          /\ TraceValues(pipeRuns[i].statusTrace)
               \cap {SystemStatus.TESTING, SystemStatus.COMPLETED} = {})

C6_Witness ==
  \E i \in 1..MaxRuns : /\ Started(i)
                        /\ pipeRuns[i].analysis = "failed"
                        /\ status = SystemStatus.FAILED
                        /\ Last(logs) \in AnalysisFailureLogs

AnalysisStatusOrder ==
  << SystemStatus.ANALYZING, SystemStatus.BUILDING, SystemStatus.SELF_HEALING,
     SystemStatus.TESTING, SystemStatus.COMPLETED >>

\* C8: whatever value analyzeBuildError returns, the run goes on to set the
\* same statuses (after SELF_HEALING: TESTING, then COMPLETED); the content
\* of a successful response changes the text of log entries only.
C8_AnalysisTextIsFlavorOnly ==
  \A i \in 1..MaxRuns : (Started(i) /\ pipeRuns[i].analysis = "returned") =>
     /\ IsPrefix(pipeRuns[i].statusTrace, AnalysisStatusOrder)
     /\ pipeRuns[i].interrupted = 0

(* ======================= claims: retry-loop pipeline =================== *)
ScriptedStatusOrder ==
  << GENERATING_CODE, SystemStatus.BUILDING, SystemStatus.SELF_HEALING,
     SystemStatus.BUILDING, SystemStatus.TESTING, SystemStatus.SELF_HEALING,
     SystemStatus.BUILDING, SystemStatus.TESTING, SystemStatus.COMPLETED >>

\* C1: a run of startPipeline (started from IDLE with a source input) sets
\* the status to SystemStatus.GENERATING_CODE, BUILDING, SELF_HEALING,
\* BUILDING, TESTING, SELF_HEALING, BUILDING, TESTING, COMPLETED in this
\* order and to nothing else: what the run has set so far is always a prefix
\* of that list, a finished run has set all of it, and each value the run
\* records is the value it stored in status in that step.
C1_StatusSequence ==
  /\ [](\A i \in 1..MaxRuns : Started(i) =>
          /\ IsPrefix(pipeRuns[i].statusTrace, ScriptedStatusOrder)
          /\ Finished(i) => pipeRuns[i].statusTrace = ScriptedStatusOrder)
  /\ [][\A i \in 1..MaxRuns :
          (Started(i)' /\ (~Started(i) \/ pipeRuns[i].statusTrace # pipeRuns[i].statusTrace'))
             => /\ status' = Last(pipeRuns[i].statusTrace')
                /\ (~Started(i) => status = SystemStatus.IDLE /\ ~SourceInputMissing)]_vars

C1_Witness ==
  \E i \in 1..MaxRuns : Finished(i) /\ pipeRuns[i].statusTrace = ScriptedStatusOrder

\* C2: every run fails once on the namespace error (build cycle 1), once on
\* the OutOfMemoryError (build cycle 2) and is stable in build cycle 3; it
\* ends by setting status COMPLETED and never takes the FAILED branch.
C2_FailTwiceThenSucceed ==
  /\ [](\A i \in 1..MaxRuns : Started(i) =>
          /\ IsPrefix(pipeRuns[i].cycles, <<"namespace", "memory", "stable">>)
          /\ Len(pipeRuns[i].cycles) \in {pipeRuns[i].currentRetry, pipeRuns[i].currentRetry + 1}
          /\ SystemStatus.FAILED \notin {pipeRuns[i].statusTrace[k] : k \in 1..Len(pipeRuns[i].statusTrace)}
          /\ Finished(i) => /\ pipeRuns[i].cycles = <<"namespace", "memory", "stable">>
                            /\ pipeRuns[i].isStable)
  /\ [][\A i \in 1..MaxRuns :
          (~Finished(i) /\ Finished(i)') => status' = SystemStatus.COMPLETED]_vars

C2_Witness ==
  \E i \in 1..MaxRuns : /\ Finished(i)
                        /\ pipeRuns[i].cycles = <<"namespace", "memory", "stable">>
                        /\ status = SystemStatus.COMPLETED

\* C3: the status is always one of the eight values SystemStatus declares.
C3_StatusInEnum == status \in SystemStatusValues

\* C5: at most one scripted sequence (runProvisioning or startPipeline) is
\* in progress at any time.
C5_AtMostOneSequence == InProgress <= 1

\* C10: handleDownload saves a blob and appends its success log only when
\* status is COMPLETED and downloadProgress is at least 100; a call with
\* downloadProgress below 100 changes no state of the program.
C10_DownloadOnlyWhenFinished ==
  /\ [][uses'.downloads = uses.downloads + 1 =>
          IF downloadProgress < 100
            THEN UNCHANGED <<app, status, logs, provisioning, projectUrl,
                             selectedFile, inputMode, selfHealingScript,
                             retryCount, activeTab, sourceFiles,
                             downloadProgress, isPreparingDownload, interval,
                             provRuns, pipeRuns, savedBlobs, svc, env, chat, buildProgress, effectPending>>
            ELSE /\ status = SystemStatus.COMPLETED
                 /\ savedBlobs' = savedBlobs + 1
                 /\ Len(logs') = Len(logs) + 1
                 /\ Last(logs').type = "success"]_vars
  /\ [][savedBlobs' > savedBlobs =>
          /\ uses'.downloads = uses.downloads + 1
          /\ status = SystemStatus.COMPLETED
          /\ downloadProgress >= 100]_vars

\* One refused and one accepted call of handleDownload have happened.
C10_Witness == uses.downloads = 2 /\ savedBlobs = 1 /\ status = SystemStatus.COMPLETED

(* ============================ claims: inputs =========================== *)
\* C11: selectedFile is only ever a file whose name ends in '.zip'; choosing
\* a file with another name leaves selectedFile unchanged.
C11_OnlyZipSelected == selectedFile # null => IsZipName(selectedFile)

(* ======================= claims: source-file patches =================== *)
\* The step in which run i leaves the position pc of its script.
LeavesPc(i, pc) == pipeRuns[i].pc = pc /\ pipeRuns'[i].pc \notin {pc, "none"}

\* Between this state and the next only the content of the file called name
\* differs: two records, in the same order, with the same name, path and
\* language, and the content of every other file as it was.
OnlyContentOf(name) ==
  /\ Len(sourceFiles) = 2
  /\ Len(sourceFiles') = 2
  /\ \A k \in 1..2 :
       /\ sourceFiles'[k].name = sourceFiles[k].name
       /\ sourceFiles'[k].path = sourceFiles[k].path
       /\ sourceFiles'[k].language = sourceFiles[k].language
       /\ IF sourceFiles[k].name = name
            THEN sourceFiles'[k].content # sourceFiles[k].content
            ELSE sourceFiles'[k].content = sourceFiles[k].content

\* C12: the namespace patch changes only the content of build.gradle and the
\* out-of-memory patch only the content of MainActivity.kt; names, paths,
\* languages, the other file's content and the number and order of records
\* (two) stay as they are.
C12_PatchEditsOneContent ==
  [][\A i \in 1..MaxRuns :
       /\ LeavesPc(i, "patchNamespace") => OnlyContentOf("build.gradle")
       /\ LeavesPc(i, "patchMemory") => OnlyContentOf("MainActivity.kt")]_vars

\* Both patches have been applied to the generated files.
C12_Witness ==
  /\ sourceFiles = MemoryPatch(NamespacePatch(initialFiles))
  /\ sourceFiles[1].content # initialFiles[1].content
  /\ sourceFiles[2].content # initialFiles[2].content

(* ====================== claims: RAM-upgrade pipeline =================== *)
RamFailedOrder ==
  << GENERATING_CODE, SystemStatus.BUILDING, SystemStatus.SELF_HEALING,
     SystemStatus.BUILDING, SystemStatus.TESTING, SystemStatus.FAILED >>

RamCompletedOrder ==
  << GENERATING_CODE, SystemStatus.BUILDING, SystemStatus.SELF_HEALING,
     SystemStatus.BUILDING, SystemStatus.TESTING, SystemStatus.COMPLETED >>

\* C17 as stated: the memory check of a run uses the RAM limit that is
\* current when the check is made, so a run whose check happens after
\* upgradeHardware has raised ramLimit to 8 reports no OutOfMemoryError and
\* ends COMPLETED.
C17_CheckUsesCurrentRam ==
  [][\A i \in 1..MaxRuns :
       (LeavesPc(i, "test") /\ provisioning.ramLimit = 8) =>
          /\ status' = SystemStatus.COMPLETED
          /\ Last(pipeRuns'[i].statusTrace) = SystemStatus.COMPLETED]_vars

\* C16 as stated: in the RAM-upgrade App, once a run has stopped with status
\* FAILED on the OutOfMemoryError and upgradeHardware has raised ramLimit to 8,
\* the pipeline resumes by itself: the status eventually leaves FAILED.
C16_UpgradeResumes ==
  (app = "ram" /\ status = SystemStatus.FAILED /\ provisioning.ramLimit = 8)
     ~> (status # SystemStatus.FAILED)

\* C18: a run started while ramLimit is below 4 sets SystemStatus.GENERATING_CODE,
\* BUILDING, SELF_HEALING, BUILDING, TESTING, FAILED and ends after exactly
\* two build cycles; a run started with ramLimit 8 (a retry from FAILED after
\* upgradeHardware) sets the same statuses up to TESTING and then COMPLETED.
\* Each value a run records is the value it stored in status in that step.
C18_FailThenRetryCompletes ==
  /\ [](\A i \in 1..MaxRuns : Started(i) =>
          LET r == pipeRuns[i]
              order == IF r.provisioning.ramLimit < 4
                         THEN RamFailedOrder ELSE RamCompletedOrder
          IN /\ IsPrefix(r.statusTrace, order)
             /\ Finished(i) =>
                  /\ r.statusTrace = order
                  /\ r.currentRetry = 1
                  /\ r.cycles = IF r.provisioning.ramLimit < 4
                                  THEN <<"namespace", "memory">>
                                  ELSE <<"namespace", "stable">>)
  /\ [][\A i \in 1..MaxRuns :
          (Started(i)' /\ (~Started(i) \/ pipeRuns[i].statusTrace # pipeRuns'[i].statusTrace))
             => /\ status' = Last(pipeRuns'[i].statusTrace)
                /\ (~Started(i) => pipeRuns'[i].provisioning = provisioning)]_vars

\* The first run failed on the memory check with 2GB, the hardware was
\* upgraded while status was FAILED, and the retry has completed.
C18_Witness ==
  /\ Finished(1) /\ pipeRuns[1].statusTrace = RamFailedOrder
  /\ Finished(2) /\ pipeRuns[2].statusTrace = RamCompletedOrder
  /\ pipeRuns[2].provisioning.ramLimit = 8
  /\ status = SystemStatus.COMPLETED

(* ================= claims: termination of the pipelines ================ *)
RunEnded(i) ==
  /\ Finished(i)
  /\ Last(pipeRuns[i].statusTrace) \in {SystemStatus.COMPLETED, SystemStatus.FAILED}

\* The number of build cycles the claim allows: 4 in the RAM-upgrade App, 3
\* in the retry loop.
CycleLimit == IF app = "ram" THEN 4 ELSE 3

\* C15: with every timer firing and every AI call returning or failing, a
\* run started by startPipeline ends (or its page is reloaded): its last
\* status is COMPLETED or FAILED; it performs at most maxRetries build cycles
\* (3 in the retry loop, 4 in the RAM-upgrade App) and retryCount stays in
\* 0..maxRetries - 1.
C15_RunsTerminate ==
  /\ \A i \in 1..MaxRuns : Started(i) ~> (~Started(i) \/ RunEnded(i))
  /\ [](\A i \in 1..MaxRuns : Started(i) =>
           /\ Len(pipeRuns[i].cycles) <= CycleLimit
           /\ Finished(i) => RunEnded(i))
  /\ [](retryCount \in 0..(CycleLimit - 1))

\* A retry-loop run has ended after three build cycles.
C15_Witness ==
  /\ app = "retry" /\ RunEnded(1) /\ Len(pipeRuns[1].cycles) = 3
  /\ retryCount = maxRetries - 1

(* ======================= claims: self-healing steps ==================== *)
HealingPcs == {"patchNamespace", "patchMemory"}

Healing(i) == pipeRuns[i].pc \in HealingPcs

PatchAppliedMessages ==
  { "Patch Applied: Explicit namespace declared in build.gradle.",
    "Patch Applied: Garbage Collection and Hardware Accel optimizations added.",
    "Patch Applied: Explicit namespace declared." }

\* Number of 'Patch Applied' success entries of a log list.
PatchCount(l) ==
  Cardinality({k \in 1..Len(l) :
                 l[k].type = "success" /\ l[k].message \in PatchAppliedMessages})

\* C13: in the retry-loop and RAM-upgrade pipelines a run whose last status
\* is SELF_HEALING is waiting for its patch timer; the step that ends the
\* wait appends exactly one 'Patch Applied' success log and sets BUILDING as
\* the run's next status, so SELF_HEALING is never directly followed by
\* FAILED or COMPLETED; and the wait always ends: the status does not stay
\* SELF_HEALING forever.
C13_HealingAlwaysPatches ==
  /\ [](\A i \in 1..MaxRuns : Started(i) =>
          LET t == pipeRuns[i].statusTrace
          IN /\ Healing(i) <=> Last(t) = SystemStatus.SELF_HEALING
             /\ \A k \in 1..(Len(t) - 1) :
                  t[k] = SystemStatus.SELF_HEALING => t[k + 1] = SystemStatus.BUILDING)
  /\ [][\A i \in 1..MaxRuns :
          (Healing(i) /\ pipeRuns'[i] # pipeRuns[i] /\ Started(i)') =>
             /\ IsPrefix(logs, logs')
             /\ PatchCount(logs') = PatchCount(logs) + 1
             /\ status' = SystemStatus.BUILDING
             /\ pipeRuns'[i].statusTrace =
                  Append(pipeRuns[i].statusTrace, SystemStatus.BUILDING)]_vars
  /\ \A i \in 1..MaxRuns : Healing(i) ~> ~Healing(i)
  /\ []<>(status # SystemStatus.SELF_HEALING)

\* A retry-loop run has gone through both self-healing steps and ended.
C13_Witness ==
  /\ app = "retry" /\ Finished(1) /\ PatchCount(logs) = 2
  /\ Cardinality({k \in 1..Len(pipeRuns[1].statusTrace) :
                    pipeRuns[1].statusTrace[k] = SystemStatus.SELF_HEALING}) = 2

(* ====================== claims: download preparation ================== *)
DownloadPrepared ==
  downloadProgress = 100 /\ ~interval /\ ~isPreparingDownload

\* C23 as stated: downloadProgress is a percentage: it is in 0..100 in every
\* reachable state, and it does not decrease while status remains COMPLETED.
C23_DownloadProgressIsPercentage ==
  /\ [](downloadProgress \in 0..100)
  /\ [][(status = SystemStatus.COMPLETED /\ status' = SystemStatus.COMPLETED)
          => downloadProgress' >= downloadProgress]_vars

\* C19: in the retry-loop and progress-bar Apps, once status is COMPLETED and stays COMPLETED,
\* the interval eventually brings downloadProgress to 100 with the interval
\* cleared and isPreparingDownload false; while status stays COMPLETED a
\* cleared interval is not set again and downloadProgress and
\* isPreparingDownload no longer change (the effect of the entry into
\* COMPLETED having run).
C19_DownloadPreparationEnds ==
  /\ (status = SystemStatus.COMPLETED)
        ~> (status # SystemStatus.COMPLETED \/ (EffectsFlushed /\ DownloadPrepared))
  /\ []((status = SystemStatus.COMPLETED /\ EffectsFlushed /\ ~interval)
          => DownloadPrepared)
  /\ [][(status = SystemStatus.COMPLETED /\ EffectsFlushed /\ DownloadPrepared
           /\ status' = SystemStatus.COMPLETED) => DownloadPrepared']_vars

\* The preparation has run to its end after a completed run.
C19_Witness ==
  /\ status = SystemStatus.COMPLETED /\ EffectsFlushed /\ DownloadPrepared
  /\ Finished(1)

(* ====================== claims: progress-bar pipeline ================== *)
BarStatusOrder ==
  << GENERATING_CODE, GENERATING_CODE, SystemStatus.BUILDING, SystemStatus.BUILDING,
     SystemStatus.TESTING, SystemStatus.COMPLETED >>

\* The band of buildProgress the claim gives for each stage.
StageBand ==
  CASE status = GENERATING_CODE -> 0..15
    [] status = SystemStatus.BUILDING -> 15..75
    [] status = SystemStatus.TESTING -> 75..95
    [] status = SystemStatus.COMPLETED -> 95..100
    [] OTHER -> 0..100

Running == \E i \in 1..MaxRuns : PipeActive(i)

\* C22 as stated: in the progress-bar App, whenever status is COMPLETED the run
\* is finished: buildProgress is 100 and the source-file list is non-empty.
C22_CompletedMeansFinished ==
  status = SystemStatus.COMPLETED => (buildProgress = 100 /\ sourceFiles # <<>>)

\* C14 as stated: in the progress-bar App a run sets the statuses
\* SystemStatus.GENERATING_CODE, BUILDING, TESTING, COMPLETED in this order;
\* while a run is in progress buildProgress does not decrease and lies in the
\* band of the current status (0..15, 15..75, 75..95, 95..100), never above 100.
C14_ProgressFollowsStages ==
  /\ [](\A i \in 1..MaxRuns : Started(i) => IsPrefix(pipeRuns[i].statusTrace, BarStatusOrder))
  /\ [](Running => buildProgress \in StageBand)
  /\ [][(Running /\ Running') => buildProgress' >= buildProgress]_vars

(* ========================= claims: code fences ========================= *)
\* Some line of the text t begins with three backticks.
LineBeginsWithFence(t) ==
  \E i \in 1..Len(t) : AtLineStart(t, i) /\ MatchAt(t, i, fence)

HasBacktick(t) == \E i \in 1..Len(t) : t[i] = backtick

\* C20 as stated: for every non-empty response text, no line of the string
\* generateSelfHealingPythonScript returns begins with three backticks, and a
\* text without a backtick is returned unchanged apart from trimming.
C20_FencesRemoved ==
  (/\ svc.pc = "settled"
   /\ svc.fn = "generateSelfHealingPythonScript"
   /\ svc.result.kind = "return") =>
     /\ svc.result.value = Join(cleaned(svc.reply.text))
     /\ ~LineBeginsWithFence(cleaned(svc.reply.text))
     /\ ~HasBacktick(svc.reply.text) => cleaned(svc.reply.text) = trim(svc.reply.text)

(* =========================== claims: Flush Pipeline ==================== *)
FlushClicked == uses'.flushes = uses.flushes + 1

\* A step of a startPipeline run that was already in progress: one of its
\* timers fired or one of its AI calls settled.
RunContinues == \E i \in 1..MaxRuns : PipeActive(i) /\ pipeRuns'[i] # pipeRuns[i]

\* C21 as stated: in the AI-analysis App the Flush Pipeline button leaves the
\* log list empty, status IDLE, selfHealingScript null, the URL empty and no
\* file selected, with the provisioning flags unchanged; and afterwards the
\* log list and status stay empty and IDLE until the user starts a new run:
\* no step of a run started before the flush changes them.
C21_FlushResetsView ==
  /\ [][FlushClicked =>
          /\ logs' = <<>>
          /\ status' = SystemStatus.IDLE
          /\ selfHealingScript' = null
          /\ projectUrl' = ""
          /\ selectedFile' = null
          /\ provisioning' = provisioning]_vars
  /\ [][(uses.flushes > 0 /\ logs = <<>> /\ status = SystemStatus.IDLE /\ RunContinues)
          => (logs' = <<>> /\ status' = SystemStatus.IDLE)]_vars

(* ============ claims: download after a re-run (progress bar) ============ *)
\* A click on the download button took effect: a blob was saved.
DownloadSaved == savedBlobs' = savedBlobs + 1

\* C24 as stated: in the progress-bar App each new entry into COMPLETED
\* restarts the download preparation before handleDownload can take effect:
\* a download is saved only when the effect of the current entry into
\* COMPLETED has run (progress reset to 0) and the progress has since
\* reached 100, never on a value of 100 left by the previous run.
C24_DownloadNeedsNewPreparation ==
  [][DownloadSaved => /\ status = SystemStatus.COMPLETED
                      /\ EffectsFlushed
                      /\ downloadProgress >= 100]_vars

(* ===================== claims: chat loading flag ======================= *)
\* C25 as stated: isChatLoading is true exactly while a chat request is
\* outstanding: for any interleaving of sends and completions it is true
\* whenever at least one generateContent call has been issued and has not
\* yet returned or failed, and false otherwise.
C25_LoadingIffOutstanding ==
  chat.loading <=> (chat.calls # <<>>)

====
